---- MODULE Spec2Model ----
(***************************************************************************)
(* A state-machine model of the e-commerce backend: the relational store   *)
(* of the products and users applications (src/products/models.py,         *)
(* src/users/models.py), the file storage behind Image.image_file, and the *)
(* REST handlers of src/products/views and src/users/views.                *)
(*                                                                         *)
(* The store is one record, db, with one field per table; every row is a   *)
(* record with an id.  Field id 0 stands for Python's None / SQL NULL.     *)
(* Money and quantities are integers (hundredths).                          *)
(***************************************************************************)
EXTENDS Integers, Sequences, FiniteSets, TLC

VARIABLES
    db,        \* the relational store: one set of rows per table
    files,     \* names of the files held by the image storage
    inflight,  \* registration requests validated but not yet saved
    nextKey,   \* number of token keys generated so far (keys are never reused)
    last       \* what the last operation was and how it ended

vars == <<db, files, inflight, nextKey, last>>

(***************************************************************************)
(* Bounds of the model.                                                    *)
(***************************************************************************)
MaxUnits      == 1
MaxCategories == 2
MaxProducts   == 1
MaxLinks      == 1
MaxImages     == 2
MaxFiles      == 3
MaxCarts      == 2
MaxItems      == 1
MaxWishlists  == 2
MaxUsers      == 2
MaxKeys       == 2
MaxInflight   == 2

NoId == 0

Ids(rows) == {r.id : r \in rows}

\* The key the database gives a new row.  Its value is immaterial; the model
\* takes the least key no stored row of the table holds.
NewId(rows, max) ==
    CHOOSE i \in 1..max : i \notin Ids(rows) /\ \A j \in 1..(i - 1) : j \in Ids(rows)

Row(rows, id) == CHOOSE r \in rows : r.id = id

\* INSERT (id = NoId) or UPDATE of the row id with the fields of rec.
PutRow(rows, id, rec, max) ==
    IF id = NoId
    THEN rows \cup {[rec EXCEPT !.id = NewId(rows, max)]}
    ELSE {r \in rows : r.id # id} \cup {[rec EXCEPT !.id = id]}

EmptyDb ==
    [units |-> {}, categories |-> {}, products |-> {}, links |-> {},
     images |-> {}, carts |-> {}, items |-> {}, wishlists |-> {},
     users |-> {}, tokens |-> {}]

\* The record of an operation: its name, its input (a row, a key or a request),
\* the exception it raised ("ok" when none), and for a REST handler the
\* response's status and the key of the error it carries.
\* A REST request also records the token it presented (0: none) and the
\* token its response carries (0: none).
Response(op, auth, arg, result, status, key, token) ==
    [op |-> op, auth |-> auth, arg |-> arg, result |-> result,
     status |-> status, key |-> key, token |-> token]

Outcome(op, arg, result) == Response(op, 0, arg, result, 0, {}, 0)

(***************************************************************************)
(* Text.  Names are strings; Len gives their length.  The framework's       *)
(* validate_slug (^[-a-zA-Z0-9_]+\Z) is tabulated on the currencies used.   *)
(***************************************************************************)
LongName == "this-name-is-longer-than-two-hundred-characters-0123456789-0123456789-0123456789-0123456789-0123456789-0123456789-0123456789-0123456789-0123456789-0123456789-0123456789-0123456789-0123456789-0123456789-0123456789"

Slugs == {"USD", "EUR", "US", "USDD"}

validate_slug(s) == s \in Slugs

(***************************************************************************)
(* Unit (src/products/models.py 32-60)                                     *)
(***************************************************************************)
\* Unit.clean with the length tests off by one (>= for >).
UnitClean_Strict(u) ==
    IF u.name = "" THEN "ValidationError"
    ELSE IF Len(u.name) >= 200 THEN "ValidationError"
    ELSE IF u.symbol = "" THEN "ValidationError"
    ELSE IF Len(u.symbol) >= 9 THEN "ValidationError"
    ELSE "ok"

UnitClean(u) ==
    IF u.name = "" THEN "ValidationError"
    ELSE IF Len(u.name) > 200 THEN "ValidationError"
    ELSE IF u.symbol = "" THEN "ValidationError"
    ELSE IF Len(u.symbol) > 9 THEN "ValidationError"
    ELSE "ok"

(***************************************************************************)
(* Category (src/products/models.py 63-88)                                 *)
(***************************************************************************)
CategoryClean(c) ==
    IF c.name = "" THEN "ValidationError"
    ELSE IF Len(c.name) > 200 THEN "ValidationError"
    ELSE "ok"

\* Model.save of a Category: clean, then the row is written; the parent key
\* must name a stored category (foreign key).
CategorySaveResult(d, c) ==
    IF CategoryClean(c) # "ok" THEN CategoryClean(c)
    ELSE IF c.parent # NoId /\ c.parent \notin Ids(d.categories) THEN "IntegrityError"
    ELSE "ok"

(***************************************************************************)
(* Product (src/products/models.py 91-160)                                 *)
(***************************************************************************)
\* Product.clean without its price test.
ProductClean_NoPriceTest(p) ==
    IF p.name = "" THEN "ValidationError"
    ELSE IF Len(p.name) > 200 THEN "ValidationError"
    ELSE IF p.description = "" THEN "ValidationError"
    ELSE IF p.unit = NoId THEN "ObjectDoesNotExist"
    ELSE IF p.quantity_per_unit = 0 \/ p.quantity_per_unit <= 0 THEN "ValidationError"
    ELSE IF p.currency = "" THEN "ValidationError"
    ELSE IF Len(p.currency) > 3 THEN "ValidationError"
    ELSE IF p.discount < 0 \/ p.discount > 100 THEN "ValidationError"
    ELSE "ok"

ProductClean(p) ==
    IF p.name = "" THEN "ValidationError"
    ELSE IF Len(p.name) > 200 THEN "ValidationError"
    ELSE IF p.description = "" THEN "ValidationError"
    ELSE IF p.price = 0 \/ p.price <= 0 THEN "ValidationError"
    ELSE IF p.unit = NoId THEN "ObjectDoesNotExist"
    ELSE IF p.quantity_per_unit = 0 \/ p.quantity_per_unit <= 0 THEN "ValidationError"
    ELSE IF p.currency = "" THEN "ValidationError"
    ELSE IF Len(p.currency) > 3 THEN "ValidationError"
    ELSE IF ~validate_slug(p.currency) THEN "ValidationError"
    ELSE IF p.discount < 0 \/ p.discount > 100 THEN "ValidationError"
    ELSE "ok"

\* Product.save: clean, then the row is written; the unit key must name a
\* stored unit (foreign key).
ProductSaveResult(d, p) ==
    IF ProductClean(p) # "ok" THEN ProductClean(p)
    ELSE IF p.unit \notin Ids(d.units) THEN "IntegrityError"
    ELSE "ok"

(***************************************************************************)
(* Deletion.  Django's collector follows the on_delete declarations of the *)
(* relations; it does not call the delete() methods of the rows it         *)
(* collects, so a cascade never touches the image storage.                 *)
(***************************************************************************)
\* Rows that reference a product: ProductCategory.product, Image.product,
\* CartItem.product (all CASCADE) and the Wishlist.products relation.
CascadeProducts(d, pids) ==
    [d EXCEPT !.products  = {p \in @ : p.id \notin pids},
              !.links     = {l \in @ : l.product \notin pids},
              !.images    = {i \in @ : i.product \notin pids},
              !.items     = {i \in @ : i.product \notin pids},
              !.wishlists = {[w EXCEPT !.products = @ \ pids] : w \in @}]

\* Product.unit declared DO_NOTHING on a database without the constraint.
CascadeUnits_KeepProducts(d, uids) ==
    [d EXCEPT !.units = {u \in @ : u.id \notin uids}]

\* Product.unit: CASCADE.
CascadeUnits(d, uids) ==
    LET pids == {p.id : p \in {q \in d.products : q.unit \in uids}}
    IN  [CascadeProducts(d, pids) EXCEPT !.units = {u \in @ : u.id \notin uids}]

\* Category.parent declared CASCADE instead of SET_NULL.
CascadeCategories_ParentCascade(d, cids) ==
    [d EXCEPT !.categories = {c \in @ : c.id \notin cids /\ c.parent \notin cids},
              !.links      = {l \in @ : l.category \notin cids}]

\* Category.parent: SET_NULL; ProductCategory.category: CASCADE.
CascadeCategories(d, cids) ==
    [d EXCEPT !.categories = {[c EXCEPT !.parent = IF @ \in cids THEN NoId ELSE @]
                                 : c \in {x \in @ : x.id \notin cids}},
              !.links      = {l \in @ : l.category \notin cids}]

\* Image.delete (the inherited Model.delete): the row goes, the file stays.
DeleteImageRow(d, iid) == [d EXCEPT !.images = {i \in @ : i.id # iid}]

\* FieldFile.delete(save=False): the file is removed from the storage.
DeleteFile(fs, name) == fs \ {name}

ProductImages(d, pid) == {i \in d.images : i.product = pid}

\* Product.delete: Image.objects.get(product=self) finds none (passes), one
\* (its file and row are deleted) or several (MultipleObjectsReturned is
\* raised and nothing is deleted); then the product is deleted with what
\* references it.
ProductDeleteResult(d, pid) ==
    IF Cardinality(ProductImages(d, pid)) > 1 THEN "MultipleObjectsReturned" ELSE "ok"

ProductDeleteDb(d, pid) ==
    IF ProductDeleteResult(d, pid) # "ok" THEN d
    ELSE LET imgs == ProductImages(d, pid)
             d1   == IF imgs = {} THEN d
                     ELSE DeleteImageRow(d, (CHOOSE i \in imgs : TRUE).id)
         IN  CascadeProducts(d1, {pid})

\* Product.delete without image.image_file.delete(save=False).
ProductDeleteFiles_KeepFile(d, fs, pid) == fs

ProductDeleteFiles(d, fs, pid) ==
    IF ProductDeleteResult(d, pid) # "ok" THEN fs
    ELSE LET imgs == ProductImages(d, pid)
         IN  IF imgs = {} THEN fs
             ELSE LET img == CHOOSE i \in imgs : TRUE
                  IN  IF img.image_file # NoId THEN DeleteFile(fs, img.image_file) ELSE fs

(***************************************************************************)
(* Image (src/products/models.py 175-199)                                  *)
(***************************************************************************)
ImageClean(i) ==
    IF i.image_file = NoId THEN "ValidationError"
    ELSE IF i.product = NoId THEN "ObjectDoesNotExist"
    ELSE "ok"

\* The name the storage gives an uploaded file: one no stored file has.
NewFile(fs) == CHOOSE f \in 1..MaxFiles : f \notin fs /\ \A g \in 1..(f - 1) : g \in fs

(***************************************************************************)
(* ProductCategory (src/products/models.py 163-172): no clean, no save of  *)
(* its own; both keys are NOT NULL foreign keys.                           *)
(***************************************************************************)
LinkSaveResult(d, l) ==
    IF l.product = NoId \/ l.category = NoId THEN "IntegrityError"
    ELSE IF l.product \notin Ids(d.products) \/ l.category \notin Ids(d.categories)
         THEN "IntegrityError"
    ELSE "ok"

ProductCategoryIds(d, pid) == {l.category : l \in {x \in d.links : x.product = pid}}

(***************************************************************************)
(* Cart, CartItem (src/products/models.py 202-240)                         *)
(***************************************************************************)
CartSaveResult(d, c) ==
    IF c.user = NoId \/ c.user \notin Ids(d.users) THEN "IntegrityError" ELSE "ok"

\* CartItem.clean without its quantity test.
CartItemClean_NoQuantityTest(i) ==
    IF i.cart = NoId THEN "ObjectDoesNotExist"
    ELSE IF i.product = NoId THEN "ObjectDoesNotExist"
    ELSE "ok"

CartItemClean(i) ==
    IF i.cart = NoId THEN "ObjectDoesNotExist"
    ELSE IF i.product = NoId THEN "ObjectDoesNotExist"
    ELSE IF i.quantity <= 0 THEN "ValueError"
    ELSE "ok"

CartItemSaveResult(d, i) ==
    IF CartItemClean(i) # "ok" THEN CartItemClean(i)
    ELSE IF i.cart \notin Ids(d.carts) \/ i.product \notin Ids(d.products)
         THEN "IntegrityError"
    ELSE "ok"

\* CartItem.cart: CASCADE.
CascadeCarts(d, cids) ==
    [d EXCEPT !.carts = {c \in @ : c.id \notin cids},
              !.items = {i \in @ : i.cart \notin cids}]

\* Cart.user declared DO_NOTHING instead of CASCADE.
CascadeUsers_KeepCarts(d, uids) ==
    [d EXCEPT !.users     = {u \in @ : u.id \notin uids},
              !.wishlists = {w \in @ : w.user \notin uids},
              !.tokens    = {t \in @ : t.user \notin uids}]

\* Cart.user, Wishlist.user and the framework's Token.user: CASCADE.
CascadeUsers(d, uids) ==
    LET cids == {c.id : c \in {x \in d.carts : x.user \in uids}}
    IN  [CascadeCarts(d, cids) EXCEPT
            !.users     = {u \in @ : u.id \notin uids},
            !.wishlists = {w \in @ : w.user \notin uids},
            !.tokens    = {t \in @ : t.user \notin uids}]

(***************************************************************************)
(* Model-level operations (the ORM calls the tests and the views make).    *)
(* A delete records the rows its collector found (Model.delete returns     *)
(* them counted by table).                                                 *)
(***************************************************************************)
UnitSave(id, u) ==
    /\ id = NoId \/ id \in Ids(db.units)
    /\ id = NoId => Cardinality(db.units) < MaxUnits
    /\ db' = IF UnitClean(u) = "ok"
             THEN [db EXCEPT !.units = PutRow(@, id, u, MaxUnits)] ELSE db
    /\ last' = Outcome("Unit.save", [u EXCEPT !.id = id], UnitClean(u))
    /\ UNCHANGED <<files, inflight, nextKey>>

UnitDelete(id) ==
    /\ id \in Ids(db.units)
    /\ db' = CascadeUnits(db, {id})
    /\ last' = Outcome("Unit.delete", [id |-> id, seen |-> {p \in db.products : p.unit = id}], "ok")
    /\ UNCHANGED <<files, inflight, nextKey>>

CategorySave(id, c) ==
    /\ id = NoId \/ id \in Ids(db.categories)
    /\ id = NoId => Cardinality(db.categories) < MaxCategories
    /\ db' = IF CategorySaveResult(db, c) = "ok"
             THEN [db EXCEPT !.categories = PutRow(@, id, c, MaxCategories)] ELSE db
    /\ last' = Outcome("Category.save", [c EXCEPT !.id = id], CategorySaveResult(db, c))
    /\ UNCHANGED <<files, inflight, nextKey>>

CategoryDelete(id) ==
    /\ id \in Ids(db.categories)
    /\ db' = CascadeCategories(db, {id})
    /\ last' = Outcome("Category.delete",
                       [id |-> id,
                        seen |-> [children |-> {c \in db.categories : c.parent = id /\ c.id # id},
                                  links |-> {l \in db.links : l.category = id}]],
                       "ok")
    /\ UNCHANGED <<files, inflight, nextKey>>

ProductSave(id, p) ==
    /\ id = NoId \/ id \in Ids(db.products)
    /\ id = NoId => Cardinality(db.products) < MaxProducts
    /\ db' = IF ProductSaveResult(db, p) = "ok"
             THEN [db EXCEPT !.products = PutRow(@, id, p, MaxProducts)] ELSE db
    /\ last' = Outcome("Product.save", [p EXCEPT !.id = id], ProductSaveResult(db, p))
    /\ UNCHANGED <<files, inflight, nextKey>>

ProductDelete(id) ==
    /\ id \in Ids(db.products)
    /\ db' = ProductDeleteDb(db, id)
    /\ files' = ProductDeleteFiles(db, files, id)
    /\ last' = Outcome("Product.delete", [id |-> id, seen |-> ProductImages(db, id)],
                       ProductDeleteResult(db, id))
    /\ UNCHANGED <<inflight, nextKey>>

\* ProductCategory.objects.create(product=..., category=...)
LinkCreate(l) ==
    /\ Cardinality(db.links) < MaxLinks
    /\ db' = IF LinkSaveResult(db, l) = "ok"
             THEN [db EXCEPT !.links = PutRow(@, NoId, l, MaxLinks)] ELSE db
    /\ last' = Outcome("ProductCategory.create", l, LinkSaveResult(db, l))
    /\ UNCHANGED <<files, inflight, nextKey>>

\* Image.objects.create(image_file=<upload or None>, product=...): Image.save
\* runs clean; the inherited save then stores the upload under a new name and
\* inserts the row, which fails when the product key names no stored product.
ImageSaveResult(d, i) ==
    IF ImageClean(i) # "ok" THEN ImageClean(i)
    ELSE IF i.product \notin Ids(d.products) THEN "IntegrityError"
    ELSE "ok"

ImageCreate(i) ==
    /\ Cardinality(db.images) < MaxImages
    /\ Cardinality(files) < MaxFiles
    /\ db' = IF ImageSaveResult(db, i) = "ok"
             THEN [db EXCEPT !.images =
                      PutRow(@, NoId, [i EXCEPT !.image_file = NewFile(files)], MaxImages)]
             ELSE db
    /\ files' = IF ImageSaveResult(db, i) \in {"ok", "IntegrityError"}
                THEN files \cup {NewFile(files)} ELSE files
    /\ last' = Outcome("Image.create", i, ImageSaveResult(db, i))
    /\ UNCHANGED <<inflight, nextKey>>

ImageDelete(id) ==
    /\ id \in Ids(db.images)
    /\ db' = DeleteImageRow(db, id)
    /\ last' = Outcome("Image.delete", [id |-> id, seen |-> {i \in db.images : i.id = id}], "ok")
    /\ UNCHANGED <<files, inflight, nextKey>>

CartCreate(c) ==
    /\ Cardinality(db.carts) < MaxCarts
    /\ db' = IF CartSaveResult(db, c) = "ok"
             THEN [db EXCEPT !.carts = PutRow(@, NoId, c, MaxCarts)] ELSE db
    /\ last' = Outcome("Cart.create", c, CartSaveResult(db, c))
    /\ UNCHANGED <<files, inflight, nextKey>>

CartDelete(id) ==
    /\ id \in Ids(db.carts)
    /\ db' = CascadeCarts(db, {id})
    /\ last' = Outcome("Cart.delete", [id |-> id, seen |-> {i \in db.items : i.cart = id}], "ok")
    /\ UNCHANGED <<files, inflight, nextKey>>

CartItemSave(id, i) ==
    /\ id = NoId \/ id \in Ids(db.items)
    /\ id = NoId => Cardinality(db.items) < MaxItems
    /\ db' = IF CartItemSaveResult(db, i) = "ok"
             THEN [db EXCEPT !.items = PutRow(@, id, i, MaxItems)] ELSE db
    /\ last' = Outcome("CartItem.save", [i EXCEPT !.id = id], CartItemSaveResult(db, i))
    /\ UNCHANGED <<files, inflight, nextKey>>

(***************************************************************************)
(* Wishlist (src/products/models.py 243-276)                               *)
(***************************************************************************)
\* A wishlist table whose user key may be null.
WishlistSaveResult_NullableUser(d, w) ==
    IF w.user # NoId /\ w.user \notin Ids(d.users) THEN "IntegrityError" ELSE "ok"

\* Wishlist.clean: reading self.user raises when no user is set.
WishlistClean(w) == IF w.user = NoId THEN "ObjectDoesNotExist" ELSE "ok"

\* Wishlist.save: clean, then the row is written; the user key must name a
\* stored user (foreign key).
WishlistSaveResult(d, w) ==
    IF WishlistClean(w) # "ok" THEN WishlistClean(w)
    ELSE IF w.user \notin Ids(d.users) THEN "IntegrityError"
    ELSE "ok"

\* Wishlist.objects.create(user=...)
WishlistCreate(w) ==
    /\ Cardinality(db.wishlists) < MaxWishlists
    /\ db' = IF WishlistSaveResult(db, w) = "ok"
             THEN [db EXCEPT !.wishlists = PutRow(@, NoId, w, MaxWishlists)] ELSE db
    /\ last' = Outcome("Wishlist.create", w, WishlistSaveResult(db, w))
    /\ UNCHANGED <<files, inflight, nextKey>>

\* Wishlist.add_product without its isinstance test: what is not a Product
\* has no key to add.
add_product_NoTypeTest(d, arg) ==
    IF arg.kind # "Product" THEN "ok"
    ELSE IF arg.id = NoId THEN "ValueError"
    ELSE IF arg.id \notin Ids(d.products) THEN "IntegrityError"
    ELSE "ok"

\* Wishlist.add_product(product).  The argument is a value of some class
\* (kind) with a key (NoId: None, or an instance that was never saved).
\* A value that is not a Product raises ValueError; self.products.add raises
\* ValueError for a Product without a key and IntegrityError for a key that
\* names no stored product.
add_product(d, arg) ==
    IF arg.kind # "Product" THEN "ValueError"
    ELSE IF arg.id = NoId THEN "ValueError"
    ELSE IF arg.id \notin Ids(d.products) THEN "IntegrityError"
    ELSE "ok"

\* wishlist.add_product(arg) on the stored wishlist wid.
WishlistAddProduct(wid, arg) ==
    /\ wid \in Ids(db.wishlists)
    /\ db' = IF add_product(db, arg) = "ok" /\ arg.kind = "Product"
             THEN [db EXCEPT !.wishlists =
                      {IF w.id = wid THEN [w EXCEPT !.products = @ \cup {arg.id}] ELSE w
                          : w \in @}]
             ELSE db
    /\ last' = Outcome("Wishlist.add_product", [id |-> wid, product |-> arg],
                       add_product(db, arg))
    /\ UNCHANGED <<files, inflight, nextKey>>

\* Model.delete of a row of a class that declares no delete() and that no
\* relation refers to (ProductCategory, CartItem, Wishlist): the row goes.
RowDelete(table, id) ==
    /\ table \in {"links", "items", "wishlists"}
    /\ id \in Ids(db[table])
    /\ db' = [db EXCEPT ![table] = {r \in @ : r.id # id}]
    /\ last' = Outcome("Model.delete", [id |-> id, seen |-> table], "ok")
    /\ UNCHANGED <<files, inflight, nextKey>>

(***************************************************************************)
(* Characters.  Passwords and phone numbers are sequences of one-character *)
(* strings, so that the validators scan them as the code does.             *)
(***************************************************************************)
UpperChars ==
    {"A", "B", "C", "D", "E", "F", "G", "H", "I", "J", "K", "L", "M",
     "N", "O", "P", "Q", "R", "S", "T", "U", "V", "W", "X", "Y", "Z"}

LowerChars ==
    {"a", "b", "c", "d", "e", "f", "g", "h", "i", "j", "k", "l", "m",
     "n", "o", "p", "q", "r", "s", "t", "u", "v", "w", "x", "y", "z"}

DigitChars == {"0", "1", "2", "3", "4", "5", "6", "7", "8", "9"}

\* string.punctuation (the grave accent, which a TLA+ string cannot hold, is
\* left out; no password of the model contains it)
Punctuation ==
    {"!", "\"", "#", "$", "%", "&", "'", "(", ")", "*", "+", ",", "-", ".", "/",
     ":", ";", "<", "=", ">", "?", "@", "[", "\\", "]", "^", "_", "{", "|",
     "}", "~"}

AnyChar(text, chars) == \E i \in 1..Len(text) : text[i] \in chars

(***************************************************************************)
(* Passwords.  A stored password is the encoded hash that set_password /   *)
(* create_user make of a raw password, or, when a row is created with      *)
(* CustomerUser.objects.create(password=...), the raw text itself.         *)
(***************************************************************************)
make_password(raw) == [kind |-> "hash", val |-> raw]

RawPassword(raw) == [kind |-> "raw", val |-> raw]

\* check_password that accepts every password.
check_password_Any(raw, stored) == TRUE

\* check_password: the raw password is hashed and compared with the stored
\* hash; a stored text that is no encoded hash matches nothing.
check_password(raw, stored) == stored.kind = "hash" /\ stored.val = raw

\* The text of an encoded hash, algorithm$iterations$salt$digest: the salt
\* and the digest are base-64 text.
EncodedText ==
    <<"p", "b", "k", "d", "f", "2", "_", "s", "h", "a", "2", "5", "6", "$",
      "8", "7", "0", "0", "0", "0", "$", "q", "X", "z", "4", "$", "T", "m", "9", "=">>

PasswordText(stored) == IF stored.kind = "raw" THEN stored.val ELSE EncodedText

(***************************************************************************)
(* CustomPasswordValidator (src/users/validators.py 18-50)                 *)
(***************************************************************************)
\* CustomPasswordValidator.validate without its digit test.
CustomPasswordValidator_NoDigitTest(password) ==
    IF ~AnyChar(password, UpperChars) THEN "ValidationError"
    ELSE IF ~AnyChar(password, LowerChars) THEN "ValidationError"
    ELSE IF ~(\E i \in 1..Len(password) :
                 password[i] \notin UpperChars \cup LowerChars \cup DigitChars)
         THEN "ValidationError"
    ELSE "ok"

CustomPasswordValidator(password) ==
    IF ~AnyChar(password, UpperChars) THEN "ValidationError"
    ELSE IF ~AnyChar(password, LowerChars) THEN "ValidationError"
    ELSE IF ~AnyChar(password, DigitChars) THEN "ValidationError"
    ELSE IF ~(\E i \in 1..Len(password) :
                 password[i] \notin UpperChars \cup LowerChars \cup DigitChars)
         THEN "ValidationError"
    ELSE "ok"

\* The framework's MinimumLengthValidator, which the project's settings list
\* before the custom validator (a password of 7 characters is refused).
MinimumLengthValidator(password) ==
    IF Len(password) < 8 THEN "ValidationError" ELSE "ok"

\* django.contrib.auth.password_validation.validate_password: every
\* configured validator runs; the password is refused when one refuses it.
validate_password(password) ==
    IF MinimumLengthValidator(password) # "ok" \/ CustomPasswordValidator(password) # "ok"
    THEN "ValidationError" ELSE "ok"

(***************************************************************************)
(* CustomerUser (src/users/models.py 36-160)                               *)
(***************************************************************************)
\* The framework's validate_email and BaseUserManager.normalize_email (the
\* domain part is lower-cased), tabulated on the addresses used.
ValidEmails == {"a@x.io", "b@x.io", "a@X.io"}

validate_email(e) == e \in ValidEmails

normalize_email(e) == IF e = "a@X.io" THEN "a@x.io" ELSE e

validate_password_complexity(value) ==
    IF Len(value) < 8 THEN "ValidationError"
    ELSE IF ~AnyChar(value, UpperChars) THEN "ValidationError"
    ELSE IF ~AnyChar(value, LowerChars) THEN "ValidationError"
    ELSE IF ~AnyChar(value, DigitChars) THEN "ValidationError"
    ELSE IF ~AnyChar(value, Punctuation) THEN "ValidationError"
    ELSE "ok"

validate_username_complexity(value) ==
    IF Len(value) < 4 THEN "ValidationError"
    ELSE IF Len(value) > 20 THEN "ValidationError"
    ELSE "ok"

\* validate_phone_number_complexity without its length test.
validate_phone_number_complexity_NoTest(value) == "ok"

validate_phone_number_complexity(value) ==
    IF Len(value) > 20 THEN "ValidationError" ELSE "ok"

\* CustomerUser.clean.  AbstractUser.clean has normalised the email before
\* the checks run (see UserNormalised).
UserClean(u) ==
    IF u.username = "" THEN "ValidationError"
    ELSE IF u.email = "" THEN "ValidationError"
    ELSE IF PasswordText(u.password) = <<>> THEN "ValidationError"
    ELSE IF u.first_name = "" THEN "ValidationError"
    ELSE IF u.last_name = "" THEN "ValidationError"
    ELSE IF validate_password_complexity(PasswordText(u.password)) # "ok"
         THEN "ValidationError"
    ELSE IF validate_username_complexity(u.username) # "ok" THEN "ValidationError"
    ELSE IF validate_phone_number_complexity(u.phone_number) # "ok"
         THEN "ValidationError"
    ELSE IF ~validate_email(u.email) THEN "ValidationError"
    ELSE "ok"

UserNormalised(u) == [u EXCEPT !.email = normalize_email(@)]

\* The user table without its unique constraints.
UserUnique_NoConstraint(d, id, u) == TRUE

\* The unique constraints of the user table: username (AbstractUser) and
\* email (unique=True).
UserUnique(d, id, u) ==
    \A o \in d.users : o.id # id => (o.username # u.username /\ o.email # u.email)

\* CustomerUser.save: clean, then the row is written under the constraints.
UserSaveResult(d, id, u) ==
    IF UserClean(UserNormalised(u)) # "ok" THEN UserClean(UserNormalised(u))
    ELSE IF ~UserUnique(d, id, UserNormalised(u)) THEN "IntegrityError"
    ELSE "ok"

UserSaveDb(d, id, u) ==
    IF UserSaveResult(d, id, u) = "ok"
    THEN [d EXCEPT !.users = PutRow(@, id, UserNormalised(u), MaxUsers)]
    ELSE d

\* CustomerUser.__str__
UserStr(u) == u.username

\* CustomerUser.objects.create(...) and instance.save()
UserSave(id, u) ==
    /\ id = NoId \/ id \in Ids(db.users)
    /\ id = NoId => Cardinality(db.users) < MaxUsers
    /\ db' = UserSaveDb(db, id, u)
    /\ last' = Outcome("CustomerUser.save", [u EXCEPT !.id = id],
                       UserSaveResult(db, id, u))
    /\ UNCHANGED <<files, inflight, nextKey>>

UserDelete(id) ==
    /\ id \in Ids(db.users)
    /\ db' = CascadeUsers(db, {id})
    /\ last' = Outcome("CustomerUser.delete",
                       [id |-> id,
                        seen |-> [carts |-> {c \in db.carts : c.user = id},
                                  items |-> {i \in db.items :
                                                \E c \in db.carts : c.user = id /\ c.id = i.cart}]],
                       "ok")
    /\ UNCHANGED <<files, inflight, nextKey>>

(***************************************************************************)
(* Authentication of a request.  The project's settings make the           *)
(* framework's TokenAuthentication the authenticator: a request without a  *)
(* token is anonymous, a token that is stored authenticates its user, and  *)
(* any other token fails the request with 401 before the view runs.        *)
(***************************************************************************)
TokenUser(d, tok) ==
    IF \E t \in d.tokens : t.key = tok
    THEN (CHOOSE t \in d.tokens : t.key = tok).user
    ELSE NoId

AuthenticationFailed(d, tok) == tok # 0 /\ TokenUser(d, tok) = NoId

\* Token.objects.get_or_create(user=...): Token.user is one-to-one.
HasToken(d, uid) == \E t \in d.tokens : t.user = uid

UserToken(d, uid) == (CHOOSE t \in d.tokens : t.user = uid).key

\* Token.objects.create(user=...) in the place of get_or_create, on a table
\* whose user column is not unique.
GetOrCreateToken_AlwaysCreate(d, uid, k) ==
    [d EXCEPT !.tokens = @ \cup {[key |-> k + 1, user |-> uid]}]

GetOrCreateToken(d, uid, k) ==
    IF HasToken(d, uid) THEN d
    ELSE [d EXCEPT !.tokens = @ \cup {[key |-> k + 1, user |-> uid]}]

(***************************************************************************)
(* CustomerUserSerializer (src/users/serializers.py)                       *)
(* A request is a record of the submitted values; given holds the names of *)
(* the fields the request carries.                                         *)
(***************************************************************************)
Has(req, f) == f \in req.given

\* Field validation, as the ModelSerializer derives it from the model's
\* fields: username, email and password are required and not blank, username
\* and email are unique, the email is an address; first_name and last_name
\* may be blank; phone_number is declared in the serializer.
\* id is the instance being updated (NoId on create).
PhoneChars == DigitChars \cup {"*", "+", "#", "-"}

FieldErrors(d, id, req, partial) ==
    {f \in {"username", "email", "password"} : ~Has(req, f) /\ ~partial}
    \cup (IF Has(req, "username")
             /\ (\/ req.username = ""
                 \/ \E o \in d.users : o.id # id /\ o.username = req.username)
          THEN {"username"} ELSE {})
    \cup (IF Has(req, "email")
             /\ (\/ req.email = ""
                 \/ ~validate_email(req.email)
                 \/ \E o \in d.users : o.id # id /\ o.email = req.email)
          THEN {"email"} ELSE {})
    \cup (IF Has(req, "password") /\ req.password = <<>> THEN {"password"} ELSE {})
    \cup (IF Has(req, "phone_number")
             /\ (\/ Len(req.phone_number) > 20
                 \/ \E i \in 1..Len(req.phone_number) :
                        req.phone_number[i] \notin PhoneChars)
          THEN {"phone_number"} ELSE {})

\* CustomerUserSerializer.validate: the key of the error it raises, "" when
\* it returns the attributes.
RequiredFields(id) ==
    IF id = NoId THEN <<"email", "first_name", "last_name", "username", "password">>
    ELSE <<"email", "first_name", "last_name">>

SerializerValidate(id, req) ==
    LET required == RequiredFields(id)
        missing  == {i \in 1..Len(required) : ~Has(req, required[i])}
    IN  IF missing # {}
        THEN required[CHOOSE i \in missing : \A j \in missing : i <= j]
        ELSE IF (Has(req, "password") /\ req.password # <<>>) \/ id = NoId
        THEN IF validate_password(req.password) # "ok" THEN "password" ELSE ""
        ELSE ""

\* serializer.is_valid(): the keys of serializer.errors.
SerializerErrors(d, id, req, partial) ==
    IF FieldErrors(d, id, req, partial) # {} THEN FieldErrors(d, id, req, partial)
    ELSE IF SerializerValidate(id, req) # "" THEN {SerializerValidate(id, req)}
    ELSE {}

\* CustomerUserSerializer.create: the row it saves.
CreatedUser(req) ==
    [id |-> NoId, username |-> req.username, email |-> req.email,
     password |-> make_password(req.password),
     first_name |-> req.first_name, last_name |-> req.last_name,
     phone_number |-> IF Has(req, "phone_number") THEN req.phone_number ELSE <<>>,
     groups |-> {}]

\* CustomerUserSerializer.update: the instance after the assignments, and the
\* exception raised before instance.save(), if any.
UpdatedUser(u, req) ==
    [u EXCEPT !.username   = IF Has(req, "username") THEN req.username ELSE @,
              !.email      = IF Has(req, "email") THEN req.email ELSE @,
              !.first_name = IF Has(req, "first_name") THEN req.first_name ELSE @,
              !.last_name  = IF Has(req, "last_name") THEN req.last_name ELSE @,
              !.password   = IF Has(req, "password") /\ req.password # <<>>
                             THEN make_password(req.password) ELSE @,
              !.phone_number = IF Has(req, "phone_number") /\ req.phone_number # <<>>
                               THEN req.phone_number ELSE @]

(***************************************************************************)
(* RegisterView (src/users/views/authentication.py 31-75)                  *)
(***************************************************************************)
RegisterView_permission(user) == TRUE

\* perform_create, inside transaction.atomic: the user is saved, joins the
\* group user_customers, is saved again, and gets a token.
PerformCreateResult(d, req) == UserSaveResult(d, NoId, CreatedUser(req))

\* perform_create without self.user.groups.add(group).
PerformCreateDb_NoGroup(d, req, k) ==
    IF PerformCreateResult(d, req) # "ok" THEN d
    ELSE GetOrCreateToken(UserSaveDb(d, NoId, CreatedUser(req)), NewId(d.users, MaxUsers), k)

PerformCreateDb(d, req, k) ==
    LET uid == NewId(d.users, MaxUsers)
        d1  == UserSaveDb(d, NoId, CreatedUser(req))
        d2  == [d1 EXCEPT !.users =
                   {IF u.id = uid THEN [u EXCEPT !.groups = @ \cup {"user_customers"}]
                    ELSE u : u \in @}]
    IN  IF PerformCreateResult(d, req) # "ok" THEN d
        ELSE GetOrCreateToken(d2, uid, k)

\* The whole request: validation, then perform_create.
Register(tok, req) ==
    /\ Cardinality(db.users) < MaxUsers
    /\ nextKey < MaxKeys
    /\ IF AuthenticationFailed(db, tok)
       THEN /\ last' = Response("register", tok, req, "AuthenticationFailed", 401, {"detail"}, 0)
            /\ UNCHANGED <<db, nextKey>>
       ELSE IF SerializerErrors(db, NoId, req, FALSE) # {}
       THEN /\ last' = Response("register", tok, req, "ok", 400,
                                SerializerErrors(db, NoId, req, FALSE), 0)
            /\ UNCHANGED <<db, nextKey>>
       ELSE IF PerformCreateResult(db, req) # "ok"
       THEN /\ last' = Response("register", tok, req, PerformCreateResult(db, req), 500, {}, 0)
            /\ UNCHANGED <<db, nextKey>>
       ELSE /\ db' = PerformCreateDb(db, req, nextKey)
            /\ nextKey' = nextKey + 1
            /\ last' = Response("register", tok, req, "ok", 201, {"token"}, nextKey + 1)
    /\ UNCHANGED <<files, inflight>>

\* The same request in two steps, for requests served concurrently: the
\* serializer's validation reads the store when the request arrives, and
\* perform_create writes when it is scheduled.
RegisterBegin(tok, req) ==
    /\ Cardinality(inflight) < MaxInflight
    /\ req \notin inflight
    /\ IF AuthenticationFailed(db, tok)
       THEN /\ last' = Response("register", tok, req, "AuthenticationFailed", 401, {"detail"}, 0)
            /\ UNCHANGED inflight
       ELSE IF SerializerErrors(db, NoId, req, FALSE) # {}
       THEN /\ last' = Response("register", tok, req, "ok", 400,
                                SerializerErrors(db, NoId, req, FALSE), 0)
            /\ UNCHANGED inflight
       ELSE /\ inflight' = inflight \cup {req}
            /\ last' = Response("register.validated", tok, req, "ok", 0, {}, 0)
    /\ UNCHANGED <<db, files, nextKey>>

RegisterFinish(req) ==
    /\ req \in inflight
    /\ Cardinality(db.users) < MaxUsers
    /\ nextKey < MaxKeys
    /\ inflight' = inflight \ {req}
    /\ IF PerformCreateResult(db, req) # "ok"
       THEN /\ last' = Response("register", 0, req, PerformCreateResult(db, req), 500, {}, 0)
            /\ UNCHANGED <<db, nextKey>>
       ELSE /\ db' = PerformCreateDb(db, req, nextKey)
            /\ nextKey' = nextKey + 1
            /\ last' = Response("register", 0, req, "ok", 201, {"token"}, nextKey + 1)
    /\ UNCHANGED files

(***************************************************************************)
(* LoginView (src/users/views/authentication.py 78-97)                     *)
(***************************************************************************)
LoginView_permission(user) == TRUE

\* django.contrib.auth.authenticate with the model backend: the user of
\* that username whose stored hash the password matches; None when the
\* username or the password is missing.  (Every user is active: no
\* operation of the model clears is_active.)
authenticate(d, req) ==
    IF ~Has(req, "username") \/ ~Has(req, "password") THEN NoId
    ELSE IF \E u \in d.users :
                u.username = req.username /\ check_password(req.password, u.password)
    THEN (CHOOSE u \in d.users :
             u.username = req.username /\ check_password(req.password, u.password)).id
    ELSE NoId

Login(tok, req) ==
    /\ IF AuthenticationFailed(db, tok)
       THEN /\ last' = Response("login", tok, req, "AuthenticationFailed", 401, {"detail"}, 0)
            /\ UNCHANGED <<db, nextKey>>
       ELSE IF authenticate(db, req) # NoId
       THEN /\ HasToken(db, authenticate(db, req)) \/ nextKey < MaxKeys
            /\ db' = GetOrCreateToken(db, authenticate(db, req), nextKey)
            /\ nextKey' = IF HasToken(db, authenticate(db, req)) THEN nextKey ELSE nextKey + 1
            /\ last' = Response("login", tok, req, "ok", 200, {"token"},
                                UserToken(db', authenticate(db, req)))
       ELSE /\ last' = Response("login", tok, req, "ok", 400, {"error"}, 0)
            /\ UNCHANGED <<db, nextKey>>
    /\ UNCHANGED <<files, inflight>>

(***************************************************************************)
(* LogoutView (src/users/views/authentication.py 100-111)                  *)
(***************************************************************************)
LogoutView_permission(user) == user # NoId

\* LogoutView.post that answers 200 and leaves the token stored.
Logout_KeepToken(tok) ==
    /\ IF AuthenticationFailed(db, tok) \/ ~LogoutView_permission(TokenUser(db, tok))
       THEN last' = Response("logout", tok, tok, "NotAuthenticated", 401, {"detail"}, 0)
       ELSE last' = Response("logout", tok, tok, "ok", 200, {}, 0)
    /\ UNCHANGED <<db, files, inflight, nextKey>>

Logout(tok) ==
    /\ IF AuthenticationFailed(db, tok) \/ ~LogoutView_permission(TokenUser(db, tok))
       THEN /\ last' = Response("logout", tok, tok, "NotAuthenticated", 401, {"detail"}, 0)
            /\ UNCHANGED db
       ELSE /\ db' = [db EXCEPT !.tokens = {t \in @ : t.user # TokenUser(db, tok)}]
            /\ last' = Response("logout", tok, tok, "ok", 200, {}, 0)
    /\ UNCHANGED <<files, inflight, nextKey>>

(***************************************************************************)
(* ChangePasswordView (src/users/views/passwords.py)                       *)
(***************************************************************************)
ChangePasswordView_permission(user) == user # NoId

\* ChangePasswordView.post without its test of the old password.
ChangePasswordError_NoOldTest(u, req) ==
    IF ~Has(req, "old_password") \/ req.old_password = <<>>
       \/ ~Has(req, "new_password") \/ req.new_password = <<>>
    THEN "detail"
    ELSE IF validate_password(req.new_password) # "ok" THEN "new_password"
    ELSE ""

\* The key of the 400 response, "" when the password is changed.
ChangePasswordError(u, req) ==
    IF ~Has(req, "old_password") \/ req.old_password = <<>>
       \/ ~Has(req, "new_password") \/ req.new_password = <<>>
    THEN "detail"
    ELSE IF ~check_password(req.old_password, u.password) THEN "old_password"
    ELSE IF validate_password(req.new_password) # "ok" THEN "new_password"
    ELSE ""

ChangePassword(tok, req) ==
    /\ IF AuthenticationFailed(db, tok) \/ ~ChangePasswordView_permission(TokenUser(db, tok))
       THEN /\ last' = Response("change_password", tok, req, "NotAuthenticated", 401, {"detail"}, 0)
            /\ UNCHANGED db
       ELSE LET u  == Row(db.users, TokenUser(db, tok))
                nu == [u EXCEPT !.password = make_password(req.new_password)]
            IN  IF ChangePasswordError(u, req) # ""
                THEN /\ last' = Response("change_password", tok, req, "ok", 400,
                                         {ChangePasswordError(u, req)}, 0)
                     /\ UNCHANGED db
                ELSE IF UserSaveResult(db, u.id, nu) # "ok"
                THEN /\ last' = Response("change_password", tok, req,
                                         UserSaveResult(db, u.id, nu), 500, {}, 0)
                     /\ UNCHANGED db
                ELSE /\ db' = UserSaveDb(db, u.id, nu)
                     /\ last' = Response("change_password", tok, req, "ok", 200, {"detail"}, 0)
    /\ UNCHANGED <<files, inflight, nextKey>>

(***************************************************************************)
(* ProfileView (src/users/views/profile.py)                                *)
(***************************************************************************)
ProfileView_permission(user) == user # NoId

ProfileGet(tok) ==
    /\ IF AuthenticationFailed(db, tok) \/ ~ProfileView_permission(TokenUser(db, tok))
       THEN last' = Response("profile.get", tok, tok, "NotAuthenticated", 401, {"detail"}, 0)
       ELSE last' = Response("profile.get", tok, tok, "ok", 200, {}, 0)
    /\ UNCHANGED <<db, files, inflight, nextKey>>

\* put: the serializer validates (partial=True) and saves; a ValidationError
\* that CustomerUser.save raises is caught and answered with 400; any other
\* exception leaves the view.
ProfilePut(tok, req) ==
    /\ IF AuthenticationFailed(db, tok) \/ ~ProfileView_permission(TokenUser(db, tok))
       THEN /\ last' = Response("profile.put", tok, req, "NotAuthenticated", 401, {"detail"}, 0)
            /\ UNCHANGED db
       ELSE LET u  == Row(db.users, TokenUser(db, tok))
                nu == UpdatedUser(u, req)
            IN  IF SerializerErrors(db, u.id, req, TRUE) # {}
                THEN /\ last' = Response("profile.put", tok, req, "ok", 400,
                                         SerializerErrors(db, u.id, req, TRUE), 0)
                     /\ UNCHANGED db
                ELSE IF UserSaveResult(db, u.id, nu) = "ValidationError"
                THEN /\ last' = Response("profile.put", tok, req, "ValidationError",
                                         400, {"detail"}, 0)
                     /\ UNCHANGED db
                ELSE IF UserSaveResult(db, u.id, nu) # "ok"
                THEN /\ last' = Response("profile.put", tok, req,
                                         UserSaveResult(db, u.id, nu), 500, {}, 0)
                     /\ UNCHANGED db
                ELSE /\ db' = UserSaveDb(db, u.id, nu)
                     /\ last' = Response("profile.put", tok, req, "ok", 200, {"detail"}, 0)
    /\ UNCHANGED <<files, inflight, nextKey>>

(***************************************************************************)
(* ProductSerializer (src/products/serializers.py 44-156)                  *)
(* A product request carries the product's fields (given names those       *)
(* present), the unit's name, the categories' names and an upload          *)
(* (image = 1) or none (image = 0).                                        *)
(***************************************************************************)
\* Field validation, as the ModelSerializer derives it from Product's fields.
ProductFieldErrors(req, partial) ==
    {f \in {"name", "description", "price", "quantity_per_unit", "currency"} :
        ~Has(req, f) /\ ~partial}
    \cup (IF Has(req, "name") /\ (req.name = "" \/ Len(req.name) > 200)
          THEN {"name"} ELSE {})
    \cup (IF Has(req, "description") /\ req.description = "" THEN {"description"} ELSE {})
    \cup (IF Has(req, "discount") /\ (req.discount < 0 \/ req.discount > 100)
          THEN {"discount"} ELSE {})
    \cup (IF Has(req, "currency") /\ (req.currency = "" \/ Len(req.currency) > 3)
          THEN {"currency"} ELSE {})

\* The row ProductSerializer.create hands to Product.objects.create.
CreatedProduct(req, unit) ==
    [id |-> NoId, name |-> req.name, description |-> req.description,
     price |-> req.price, discount |-> IF Has(req, "discount") THEN req.discount ELSE 0,
     unit |-> unit, quantity_per_unit |-> req.quantity_per_unit,
     currency |-> req.currency]

\* The instance after ProductSerializer.update's assignments.
UpdatedProduct(p, req, unit) ==
    [p EXCEPT !.name = IF Has(req, "name") THEN req.name ELSE @,
              !.description = IF Has(req, "description") THEN req.description ELSE @,
              !.price = IF Has(req, "price") THEN req.price ELSE @,
              !.discount = IF Has(req, "discount") THEN req.discount ELSE @,
              !.unit = unit,
              !.quantity_per_unit =
                  IF Has(req, "quantity_per_unit") THEN req.quantity_per_unit ELSE @,
              !.currency = IF Has(req, "currency") THEN req.currency ELSE @]

RECURSIVE AddLinks(_, _, _)
AddLinks(d, pid, cids) ==
    IF cids = {} THEN d
    ELSE LET c == CHOOSE x \in cids : \A y \in cids : x <= y
         IN  AddLinks([d EXCEPT !.links = PutRow(@, NoId,
                          [id |-> NoId, product |-> pid, category |-> c], MaxLinks)],
                      pid, cids \ {c})

\* product.categories.set(ids): the links to other categories go, the
\* missing ones are added.
SetCategories(d, pid, cids) ==
    LET kept == {l \in d.links : l.product # pid \/ l.category \in cids}
    IN  AddLinks([d EXCEPT !.links = kept], pid,
                 cids \ ProductCategoryIds([d EXCEPT !.links = kept], pid))

(***************************************************************************)
(* ProductViewSet (src/products/views/product_viewset.py)                  *)
(***************************************************************************)
SAFE_METHODS == {"GET", "HEAD", "OPTIONS"}

\* permissions.AllowAny in the place of IsAuthenticatedOrReadOnly.
ProductViewSet_permission_AllowAny(method, user) == TRUE

\* permissions.IsAuthenticatedOrReadOnly
ProductViewSet_permission(method, user) == method \in SAFE_METHODS \/ user # NoId

ProductDenied(d, tok, method) ==
    AuthenticationFailed(d, tok) \/ ~ProductViewSet_permission(method, TokenUser(d, tok))

CategoriesNamed(d, name) == {c.id : c \in {x \in d.categories : x.name = name}}

UnitsNamed(d, name) == {u.id : u \in {x \in d.units : x.name = name}}

\* handle_categories: the identifiers of the named categories, or the
\* exception that the first name that does not name exactly one row raises.
handle_categories(d, names) ==
    LET bad == {i \in 1..Len(names) : Cardinality(CategoriesNamed(d, names[i])) # 1}
        first == CHOOSE i \in bad : \A j \in bad : i <= j
    IN  IF bad = {}
        THEN [error |-> "",
              ids |-> UNION {CategoriesNamed(d, names[i]) : i \in 1..Len(names)}]
        ELSE [error |-> IF CategoriesNamed(d, names[first]) = {}
                        THEN "NotFound" ELSE "MultipleObjectsReturned",
              ids |-> {}]

handle_unit(d, req) ==
    IF ~Has(req, "unit") \/ req.unit = "" THEN [error |-> "NotFound", id |-> NoId]
    ELSE IF UnitsNamed(d, req.unit) = {} THEN [error |-> "NotFound", id |-> NoId]
    ELSE IF Cardinality(UnitsNamed(d, req.unit)) > 1
    THEN [error |-> "MultipleObjectsReturned", id |-> NoId]
    ELSE [error |-> "", id |-> CHOOSE u \in UnitsNamed(d, req.unit) : TRUE]

\* The status of the response to an exception that leaves a view: the
\* framework answers NotFound with 404 and does not handle the others.
StatusOf(exception) == IF exception = "NotFound" THEN 404 ELSE 500

\* A block that is not atomic: what was written before the exception stays.
Atomic_NoRollback(before, after, raised) == after

\* with transaction.atomic(): the writes of the block are committed when it
\* is left normally and undone when an exception leaves it.
Atomic(before, after, raised) == IF raised THEN before ELSE after

Ran(d, fs, result, status, key) ==
    [db |-> d, files |-> fs, result |-> result, status |-> status, key |-> key]

\* create.  fault is what the environment does to the request: "none", a
\* database error while the categories are written ("categories"), a storage
\* error while the upload is stored ("storage"), a database error while the
\* image row is inserted ("image_row").
ProductCreateRun(d, fs, req, fault) ==
    LET cats == handle_categories(d, req.categories)
        unit == handle_unit(d, req)
        row  == CreatedProduct(req, unit.id)
        pid  == NewId(d.products, MaxProducts)
        d1   == [d EXCEPT !.products = PutRow(@, NoId, row, MaxProducts)]
        d2   == SetCategories(d1, pid, cats.ids)
        f1   == fs \cup {NewFile(fs)}
        d3   == [d2 EXCEPT !.images = PutRow(@, NoId,
                    [id |-> NoId, image_file |-> NewFile(fs), product |-> pid], MaxImages)]
    IN  IF cats.error # ""
        THEN Ran(Atomic(d, d, TRUE), fs, cats.error, StatusOf(cats.error), {"detail"})
        ELSE IF unit.error # ""
        THEN Ran(Atomic(d, d, TRUE), fs, unit.error, StatusOf(unit.error), {"detail"})
        ELSE IF ProductFieldErrors(req, FALSE) # {}
        THEN Ran(Atomic(d, d, FALSE), fs, "ok", 400, ProductFieldErrors(req, FALSE))
        ELSE IF ProductSaveResult(d, row) # "ok"
        THEN Ran(Atomic(d, d, TRUE), fs, ProductSaveResult(d, row), 500, {})
        ELSE IF fault = "categories"
        THEN Ran(Atomic(d, d1, TRUE), fs, "DatabaseError", 500, {})
        ELSE IF req.image = 0
        THEN Ran(Atomic(d, d2, FALSE), fs, "ok", 201, {})
        ELSE IF fault = "storage"
        THEN Ran(Atomic(d, d2, TRUE), fs, "OSError", 500, {})
        ELSE IF fault = "image_row"
        THEN Ran(Atomic(d, d2, TRUE), f1, "DatabaseError", 500, {})
        ELSE Ran(Atomic(d, d3, FALSE), f1, "ok", 201, {})

\* update.  The response is built inside the atomic block: get_image_url
\* raises there when the product has several images.
ProductUpdateRun(d, fs, pk, req, fault) ==
    LET cats == handle_categories(d, req.categories)
        unit == handle_unit(d, req)
        row  == UpdatedProduct(Row(d.products, pk), req, unit.id)
        d1   == SetCategories(d, pk, cats.ids)
        d2   == [d1 EXCEPT !.products = PutRow(@, pk, row, MaxProducts)]
        imgs == ProductImages(d2, pk)
        old  == CHOOSE i \in imgs : TRUE
        f1   == IF imgs = {} THEN fs ELSE DeleteFile(fs, old.image_file)
        d3   == IF imgs = {} THEN d2 ELSE DeleteImageRow(d2, old.id)
        f2   == f1 \cup {NewFile(f1)}
        d4   == [d3 EXCEPT !.images = PutRow(@, NoId,
                    [id |-> NoId, image_file |-> NewFile(f1), product |-> pk], MaxImages)]
    IN  IF pk \notin Ids(d.products)
        THEN Ran(Atomic(d, d, TRUE), fs, "NotFound", 404, {"detail"})
        ELSE IF cats.error # ""
        THEN Ran(Atomic(d, d, TRUE), fs, cats.error, StatusOf(cats.error), {"detail"})
        ELSE IF unit.error # ""
        THEN Ran(Atomic(d, d, TRUE), fs, unit.error, StatusOf(unit.error), {"detail"})
        ELSE IF ProductFieldErrors(req, TRUE) # {}
        THEN Ran(Atomic(d, d, FALSE), fs, "ok", 400, ProductFieldErrors(req, TRUE))
        ELSE IF fault = "categories"
        THEN Ran(Atomic(d, d, TRUE), fs, "DatabaseError", 500, {})
        ELSE IF ProductSaveResult(d1, row) # "ok"
        THEN Ran(Atomic(d, d1, TRUE), fs, ProductSaveResult(d1, row), 500, {})
        ELSE IF req.image = 0 /\ Cardinality(imgs) > 1
        THEN Ran(Atomic(d, d2, TRUE), fs, "MultipleObjectsReturned", 500, {})
        ELSE IF req.image = 0
        THEN Ran(Atomic(d, d2, FALSE), fs, "ok", 200, {})
        ELSE IF Cardinality(imgs) > 1
        THEN Ran(Atomic(d, d2, TRUE), fs, "MultipleObjectsReturned", 500, {})
        ELSE IF fault = "storage"
        THEN Ran(Atomic(d, d3, TRUE), f1, "OSError", 500, {})
        ELSE IF fault = "image_row"
        THEN Ran(Atomic(d, d3, TRUE), f2, "DatabaseError", 500, {})
        ELSE Ran(Atomic(d, d4, FALSE), f2, "ok", 200, {})

\* The request fits the model's tables.
ProductFits(d, fs, req) ==
    /\ Cardinality(d.links) + Len(req.categories) <= MaxLinks
    /\ req.image = 1 => (Cardinality(d.images) < MaxImages /\ Cardinality(fs) < MaxFiles)

ProductCreate(tok, req, fault) ==
    /\ Cardinality(db.products) < MaxProducts
    /\ ProductFits(db, files, req)
    /\ IF ProductDenied(db, tok, "POST")
       THEN /\ last' = Response("product.create", tok, [req |-> req, fault |-> fault],
                                "NotAuthenticated", 401, {"detail"}, 0)
            /\ UNCHANGED <<db, files>>
       ELSE LET run == ProductCreateRun(db, files, req, fault)
            IN  /\ db' = run.db
                /\ files' = run.files
                /\ last' = Response("product.create", tok, [req |-> req, fault |-> fault],
                                    run.result, run.status, run.key, 0)
    /\ UNCHANGED <<inflight, nextKey>>

ProductUpdate(tok, pk, req, fault) ==
    /\ ProductFits(db, files, req)
    /\ IF ProductDenied(db, tok, "PUT")
       THEN /\ last' = Response("product.update", tok,
                                [pk |-> pk, req |-> req, fault |-> fault],
                                "NotAuthenticated", 401, {"detail"}, 0)
            /\ UNCHANGED <<db, files>>
       ELSE LET run == ProductUpdateRun(db, files, pk, req, fault)
            IN  /\ db' = run.db
                /\ files' = run.files
                /\ last' = Response("product.update", tok,
                                    [pk |-> pk, req |-> req, fault |-> fault],
                                    run.result, run.status, run.key, 0)
    /\ UNCHANGED <<inflight, nextKey>>

\* destroy: get_object (404), then Product.delete.
ProductDestroy(tok, pk) ==
    /\ IF ProductDenied(db, tok, "DELETE")
       THEN /\ last' = Response("product.destroy", tok, pk, "NotAuthenticated", 401,
                                {"detail"}, 0)
            /\ UNCHANGED <<db, files>>
       ELSE IF pk \notin Ids(db.products)
       THEN /\ last' = Response("product.destroy", tok, pk, "NotFound", 404, {"detail"}, 0)
            /\ UNCHANGED <<db, files>>
       ELSE /\ db' = ProductDeleteDb(db, pk)
            /\ files' = ProductDeleteFiles(db, files, pk)
            /\ last' = Response("product.destroy", tok, pk, ProductDeleteResult(db, pk),
                                IF ProductDeleteResult(db, pk) = "ok" THEN 204 ELSE 500,
                                {}, 0)
    /\ UNCHANGED <<inflight, nextKey>>

(***************************************************************************)
(* update and destroy served concurrently.  A request in flight is a       *)
(* record: its slot n, op, pk, whether it carries an upload (image), the   *)
(* product row it read with the request's values assigned (row), the keys  *)
(* of the Image rows it deleted (deleted), the name of the upload it       *)
(* stored (file, 0: none) and how far it got (stage).  The database is one *)
(* where a statement reads the rows committed when it runs and a row that  *)
(* an open transaction wrote is locked until that transaction ends.        *)
(***************************************************************************)
\* A database that locks no row.
RowLocked_Never(ts, t) == FALSE

\* instance.save() in ProductSerializer.update writes the product row; the
\* row stays locked for the rest of the atomic block of update.
RowLocked(ts, t) ==
    \E o \in ts : o.n # t.n /\ o.op = "product.update" /\ o.pk = t.pk /\ o.stage = "saved"

\* update, up to serializer.is_valid: get_object_or_404, handle_categories
\* (no names) and handle_unit read the store.
UpdateBegin(n, pk, req) ==
    LET image == req.image
        unit  == handle_unit(db, req)
    IN  /\ Cardinality(inflight) < MaxInflight
        /\ \A t \in inflight : t.n # n
        /\ IF pk \notin Ids(db.products) \/ unit.error # ""
           THEN /\ last' = Response("product.update", 1, [image |-> image, pk |-> pk],
                                    "NotFound", 404, {"detail"}, 0)
                /\ UNCHANGED inflight
           ELSE LET t == [deleted |-> {}, file |-> 0, image |-> image, n |-> n,
                          op |-> "product.update", pk |-> pk,
                          row |-> UpdatedProduct(Row(db.products, pk), req, unit.id),
                          seen |-> Ids(ProductImages(db, pk)), stage |-> "read"]
                IN  /\ inflight' = inflight \cup {t}
                    /\ last' = Outcome("product.update.begin", t, "ok")
        /\ UNCHANGED <<db, files, nextKey>>

\* update, from serializer.save to the response: the product row is written
\* (and locked), the image is replaced when the request carries an upload,
\* and the response is built, all inside the atomic block.
UpdateSave(t) ==
    LET imgs == ProductImages(db, t.pk)
        rest == files \ {i.image_file : i \in imgs}
    IN  /\ t \in inflight
        /\ t.op = "product.update"
        /\ t.stage = "read"
        /\ ~RowLocked(inflight, t)
        /\ \A i \in imgs : \A o \in inflight : i.id \notin o.deleted
        /\ t.image = 1 => Cardinality(rest) < MaxFiles
        /\ IF Cardinality(imgs) > 1
           THEN /\ inflight' = inflight \ {t}
                /\ last' = Response("product.update", 1, t, "MultipleObjectsReturned",
                                    500, {}, 0)
                /\ UNCHANGED files
           ELSE IF t.image = 0
           THEN /\ inflight' = (inflight \ {t}) \cup {[t EXCEPT !.stage = "saved"]}
                /\ last' = Outcome("product.update.save", t, "ok")
                /\ UNCHANGED files
           ELSE /\ inflight' = (inflight \ {t})
                                  \cup {[t EXCEPT !.stage = "saved", !.deleted = Ids(imgs),
                                                   !.file = NewFile(rest)]}
                /\ files' = rest \cup {NewFile(rest)}
                /\ last' = Outcome("product.update.save", t, "ok")
        /\ UNCHANGED <<db, nextKey>>

\* update leaves the atomic block: its writes are committed.
UpdateCommit(t) ==
    LET d1 == SetCategories(db, t.pk, {})
        d2 == [d1 EXCEPT !.products = PutRow(@, t.pk, t.row, MaxProducts),
                         !.images   = {i \in @ : i.id \notin t.deleted}]
        d3 == IF t.image = 0 THEN d2
              ELSE [d2 EXCEPT !.images = PutRow(@, NoId,
                       [id |-> NoId, image_file |-> t.file, product |-> t.pk], MaxImages)]
    IN  /\ t \in inflight
        /\ t.op = "product.update"
        /\ t.stage = "saved"
        /\ t.image = 1 => Cardinality(d2.images) < MaxImages
        /\ inflight' = inflight \ {t}
        /\ db' = d3
        /\ last' = Response("product.update", 1, t, "ok", 200, {}, 0)
        /\ UNCHANGED <<files, nextKey>>

\* destroy, the first half of Product.delete: the image is looked up and
\* deleted with its file.  destroy opens no atomic block, so the delete of
\* the Image row is committed on its own.
DestroyBegin(n, pk) ==
    LET imgs == ProductImages(db, pk)
    IN  /\ Cardinality(inflight) < MaxInflight
        /\ \A t \in inflight : t.n # n
        /\ \A i \in imgs : \A o \in inflight : i.id \notin o.deleted
        /\ IF pk \notin Ids(db.products)
           THEN /\ last' = Response("product.destroy", 1, pk, "NotFound", 404, {"detail"}, 0)
                /\ UNCHANGED <<db, files, inflight>>
           ELSE IF Cardinality(imgs) > 1
           THEN /\ last' = Response("product.destroy", 1, pk, "MultipleObjectsReturned",
                                    500, {}, 0)
                /\ UNCHANGED <<db, files, inflight>>
           ELSE LET t == [deleted |-> {}, file |-> 0, image |-> 0, n |-> n,
                          op |-> "product.destroy", pk |-> pk,
                          row |-> Row(db.products, pk), seen |-> Ids(imgs),
                          stage |-> "image_deleted"]
                IN  /\ db' = [db EXCEPT !.images = @ \ imgs]
                    /\ files' = files \ {i.image_file : i \in imgs}
                    /\ inflight' = inflight \cup {t}
                    /\ last' = Outcome("product.destroy.begin", t, "ok")
        /\ UNCHANGED nextKey

\* destroy, the second half of Product.delete: super().delete() collects
\* and deletes the rows that refer to the product, and the product row.
DestroyCommit(t) ==
    /\ t \in inflight
    /\ t.op = "product.destroy"
    /\ ~RowLocked(inflight, t)
    /\ inflight' = inflight \ {t}
    /\ db' = CascadeProducts(db, {t.pk})
    /\ last' = Response("product.destroy", 1, t.pk, "ok", 204, {}, 0)
    /\ UNCHANGED <<files, nextKey>>

\* The database ends a request in flight with an error (a deadlock, a lock
\* that timed out, a constraint that fails at the commit): what the request
\* wrote and did not commit is undone; the storage is as the request left it.
TxnAbort(t) ==
    /\ t \in inflight
    /\ inflight' = inflight \ {t}
    /\ last' = Response(t.op, 1, t, "OperationalError", 500, {}, 0)
    /\ UNCHANGED <<db, files, nextKey>>

\* get_image_url: Image.objects.get(product=obj) raises when the product has
\* several images.
Representable(d, pids) == \A pid \in pids : Cardinality(ProductImages(d, pid)) <= 1

\* list
ProductList(tok) ==
    /\ IF ProductDenied(db, tok, "GET")
       THEN last' = Response("product.list", tok, 0, "NotAuthenticated", 401, {"detail"}, 0)
       ELSE IF ~Representable(db, Ids(db.products))
       THEN last' = Response("product.list", tok, 0, "MultipleObjectsReturned", 500, {}, 0)
       ELSE last' = Response("product.list", tok, 0, "ok", 200, {}, 0)
    /\ UNCHANGED <<db, files, inflight, nextKey>>

\* retrieve
ProductRetrieve(tok, pk) ==
    /\ IF ProductDenied(db, tok, "GET")
       THEN last' = Response("product.retrieve", tok, pk, "NotAuthenticated", 401,
                             {"detail"}, 0)
       ELSE IF pk \notin Ids(db.products)
       THEN last' = Response("product.retrieve", tok, pk, "NotFound", 404, {"detail"}, 0)
       ELSE IF ~Representable(db, {pk})
       THEN last' = Response("product.retrieve", tok, pk, "MultipleObjectsReturned", 500,
                             {}, 0)
       ELSE last' = Response("product.retrieve", tok, pk, "ok", 200, {}, 0)
    /\ UNCHANGED <<db, files, inflight, nextKey>>

(***************************************************************************)
(* Inputs                                                                  *)
(***************************************************************************)
ValidUnit == [id |-> NoId, name |-> "Kilogram", symbol |-> "kg"]

ValidCategory(parent) == [id |-> NoId, name |-> "Electronics", parent |-> parent]

CategoryInputs ==
    {ValidCategory(p) : p \in 0..MaxCategories}
    \cup {[ValidCategory(NoId) EXCEPT !.name = n] : n \in {"", LongName}}

ValidProduct(u, d) ==
    [id |-> NoId, name |-> "Test Product", description |-> "text", price |-> 10000,
     discount |-> d, unit |-> u, quantity_per_unit |-> 100, currency |-> "USD"]

\* A product with one more field out of range.
ProductVariants(b) ==
    {[b EXCEPT !.name = n] : n \in {"", LongName}}
    \cup {[b EXCEPT !.description = ""]}
    \cup {[b EXCEPT !.price = x] : x \in {-10000, 0}}
    \cup {[b EXCEPT !.discount = x] : x \in {-10, 101}}
    \cup {[b EXCEPT !.quantity_per_unit = x] : x \in {-100, 0}}
    \cup {[b EXCEPT !.currency = x] : x \in {"", "USDD", "U$"}}

\* Valid products, and products with one or two fields out of range.
ProductInputs ==
    LET base == {ValidProduct(u, d) : u \in 0..MaxUnits, d \in {0, 100}}
        one  == ProductVariants(ValidProduct(1, 0))
        two  == UNION {ProductVariants(b) :
                          b \in {[ValidProduct(1, 0) EXCEPT !.name = ""],
                                 [ValidProduct(1, 0) EXCEPT !.discount = 101]}}
    IN  base \cup one \cup two

LinkInputs == [id : {NoId}, product : 0..MaxProducts, category : 0..MaxCategories]

ImageInputs == [id : {NoId}, image_file : {0, 1}, product : 0..MaxProducts]

CartInputs == [id : {NoId}, user : 0..MaxUsers]

CartItemInputs ==
    [id : {NoId}, cart : 0..MaxCarts, product : 0..MaxProducts, quantity : {-1, 0, 1}]

\* Passwords: two that meet every rule, one that breaks each rule, and one
\* whose only symbol is a space.  (The serializer trims the spaces around a
\* value; no password here begins or ends with one.)
PwGood     == <<"S", "t", "r", "o", "n", "g", "1", "!">>
PwOther    == <<"O", "t", "h", "e", "r", "P", "2", "?">>
PwShort    == <<"S", "h", "o", "r", "t", "8", "!">>
PwNoUpper  == <<"s", "t", "r", "o", "n", "g", "1", "!">>
PwNoLower  == <<"S", "T", "R", "O", "N", "G", "1", "!">>
PwNoDigit  == <<"S", "t", "r", "o", "n", "g", "e", "!">>
PwNoSymbol == <<"S", "t", "r", "o", "n", "g", "1", "2">>
PwSpace    == <<"S", "t", "r", "o", " ", "n", "g", "1">>

Usernames == <<"alice", "bobby">>

Emails == <<"a@x.io", "b@x.io">>

\* CustomerUser.objects.create(username=..., password='...', ...): the row
\* keeps the password as given.
ModelUser(n, e, pw) ==
    [id |-> NoId, username |-> Usernames[n], email |-> Emails[e],
     password |-> RawPassword(pw), first_name |-> "Test", last_name |-> "User",
     phone_number |-> <<>>, groups |-> {}]

\* The body of a registration request.
RegisterRequest(given, n, e, pw) ==
    [given |-> given, username |-> Usernames[n], email |-> Emails[e], password |-> pw,
     first_name |-> "Test", last_name |-> "User", phone_number |-> <<>>]

RegisterFields == {"username", "email", "password", "first_name", "last_name"}

\* Complete registrations with a good password, for requests that race.
RaceInputs == {RegisterRequest(RegisterFields, n, e, PwGood) : n \in 1..2, e \in 1..2}

\* Registrations with every kind of password, complete or with a field
\* missing, a blank password, or an address whose domain is in capitals.
RegisterInputs ==
    {RegisterRequest(RegisterFields, n, n, pw) :
        n \in 1..2,
        pw \in {PwGood, PwOther, PwShort, PwNoUpper, PwNoLower, PwNoDigit, PwNoSymbol,
                PwSpace, <<>>}}
    \cup {RegisterRequest(RegisterFields, 1, 2, pw) : pw \in {PwGood, PwNoSymbol}}
    \cup {RegisterRequest(RegisterFields \ {f}, 2, 2, pw) :
             f \in RegisterFields, pw \in {PwGood, PwNoSymbol}}
    \cup {[RegisterRequest(RegisterFields, 2, 2, pw) EXCEPT !.email = x] :
             pw \in {PwGood, PwShort}, x \in {"a@X.io", "not-an-address"}}

\* The body of a login request.
LoginInputs ==
    [given : {{"username", "password"}, {"username"}, {"password"}},
     username : {"alice", "carol"},
     password : {PwGood, PwOther}]

\* The body of a product request.
ProductFields == {"name", "description", "price", "discount", "unit",
                  "quantity_per_unit", "currency"}

ProductRequest(categories, image) ==
    [given |-> ProductFields, name |-> "Test Product", description |-> "text",
     price |-> 10000, discount |-> 0, unit |-> "Kilogram", quantity_per_unit |-> 100,
     currency |-> "USD", categories |-> categories, image |-> image]

\* Complete requests with and without categories and an upload; requests
\* that name a missing category or unit, leave the name out, or carry a
\* price or a discount out of range.
ShopInputs ==
    {ProductRequest(c, i) :
        c \in {<<>>, <<"Electronics">>, <<"Electronics", "Books">>, <<"Toys">>},
        i \in {0, 1}}
    \cup {[ProductRequest(<<"Electronics">>, 1) EXCEPT !.unit = "Litre"],
          [ProductRequest(<<"Electronics">>, 1) EXCEPT !.given = @ \ {"name"}],
          [ProductRequest(<<"Electronics">>, 1) EXCEPT !.price = 0],
          [ProductRequest(<<"Electronics">>, 1) EXCEPT !.discount = 101]}

Faults == {"none", "categories", "storage", "image_row"}

\* Create calls: every request without a fault and with the token, the
\* complete requests under each fault, and one request without a token.
ShopCalls ==
    {[tok |-> 1, req |-> r, fault |-> "none"] : r \in ShopInputs}
    \cup {[tok |-> 1, req |-> ProductRequest(<<"Electronics">>, 1), fault |-> f] :
             f \in Faults}
    \cup {[tok |-> 1, req |-> ProductRequest(<<"Electronics">>, 0), fault |-> "categories"],
          [tok |-> 0, req |-> ProductRequest(<<"Electronics">>, 1), fault |-> "none"]}

\* The requests of the other views.
ProfileInputs ==
    {[given |-> {"email", "first_name", "last_name"}, username |-> "", email |-> "a@x.io",
      password |-> <<>>, first_name |-> "Test", last_name |-> "Other",
      phone_number |-> <<>>]}

Init ==
    /\ db = EmptyDb
    /\ files = {}
    /\ inflight = {}
    /\ nextKey = 0
    /\ last = Outcome("init", 0, "ok")

(***************************************************************************)
(* Products and their units                                                *)
(***************************************************************************)
NextProducts ==
    \/ \E id \in 0..MaxUnits : UnitSave(id, ValidUnit)
    \/ \E id \in 1..MaxUnits : UnitDelete(id)
    \/ \E id \in 0..MaxProducts, p \in ProductInputs : ProductSave(id, p)
    \/ \E id \in 1..MaxProducts : ProductDelete(id)

SpecProducts == Init /\ [][NextProducts]_vars

(***************************************************************************)
(* Products and their images                                               *)
(***************************************************************************)
NextImages ==
    \/ UnitSave(NoId, ValidUnit)
    \/ \E id \in 1..MaxUnits : UnitDelete(id)
    \/ \E u \in 1..MaxUnits : ProductSave(NoId, ValidProduct(u, 0))
    \/ \E id \in 1..MaxProducts : ProductDelete(id)
    \/ \E i \in ImageInputs : ImageCreate(i)
    \/ \E id \in 1..MaxImages : ImageDelete(id)

SpecImages == Init /\ [][NextImages]_vars

(***************************************************************************)
(* Categories, products and the links between them                         *)
(***************************************************************************)
NextCategories ==
    \/ UnitSave(NoId, ValidUnit)
    \/ ProductSave(NoId, ValidProduct(1, 0))
    \/ \E id \in 1..MaxProducts : ProductDelete(id)
    \/ \E id \in 0..MaxCategories, c \in CategoryInputs : CategorySave(id, c)
    \/ \E id \in 1..MaxCategories : CategoryDelete(id)
    \/ \E l \in LinkInputs : LinkCreate(l)

SpecCategories == Init /\ [][NextCategories]_vars

(***************************************************************************)
(* Properties of the Product model                                         *)
(***************************************************************************)
\* The four constraints on a product's fields.
ProductFieldsValid(p) ==
    /\ p.price > 0
    /\ p.discount >= 0 /\ p.discount <= 100
    /\ p.quantity_per_unit > 0
    /\ p.currency # "" /\ Len(p.currency) <= 3

\* C1: every stored Product has price > 0, 0 <= discount <= 100,
\* quantity_per_unit > 0 and a non-empty currency of at most 3 characters;
\* a Product save (create or update) that violates one of these is rejected
\* and leaves the set of stored Products unchanged.
C1_ProductConstraints ==
    [][/\ \A p \in db'.products : ProductFieldsValid(p)
       /\ (last'.op = "Product.save" /\ ~ProductFieldsValid(last'.arg))
             => (last'.result # "ok" /\ db'.products = db.products)]_vars

\* A save of a product that breaks a constraint was rejected while a product
\* is stored.
C1_Witness ==
    /\ last.op = "Product.save"
    /\ ~ProductFieldsValid(last.arg)
    /\ last.result = "ValidationError"
    /\ db.products # {}

\* C2: deleting a Product that has exactly one Image removes that Image row
\* and the image's file from the storage, and removes the Product row.
C2_DeleteWithOneImage ==
    [][(last'.op = "Product.delete" /\ Cardinality(ProductImages(db, last'.arg.id)) = 1)
          => /\ last'.result = "ok"
             /\ \A i \in ProductImages(db, last'.arg.id) :
                   /\ i.id \notin Ids(db'.images)
                   /\ i.image_file \in files
                   /\ i.image_file \notin files'
             /\ last'.arg.id \in Ids(db.products)
             /\ last'.arg.id \notin Ids(db'.products)]_vars

\* A product that had exactly one image has been deleted.
C2_Witness ==
    /\ last.op = "Product.delete"
    /\ Cardinality(last.arg.seen) = 1
    /\ last.result = "ok"
    /\ last.arg.id \notin Ids(db.products)

\* C3: deleting a Category sets the parent of each of its children to null
\* and deletes none of them, removes every ProductCategory row that
\* references the category, and deletes no Product.
C3_CategoryDelete ==
    [][last'.op = "Category.delete"
          => /\ \A c \in db.categories :
                   c.id # last'.arg.id
                      => [c EXCEPT !.parent = IF @ = last'.arg.id THEN NoId ELSE @]
                            \in db'.categories
             /\ last'.arg.id \notin Ids(db'.categories)
             /\ \A l \in db'.links : l.category # last'.arg.id
             /\ db'.links \subseteq db.links
             /\ db'.products = db.products]_vars

\* A category that had a child and a linked product has been deleted.
C3_Witness ==
    /\ last.op = "Category.delete"
    /\ last.arg.seen.children # {}
    /\ last.arg.seen.links # {}
    /\ db.products # {}
    /\ \E c \in db.categories : c.id \in {x.id : x \in last.arg.seen.children}
                                   /\ c.parent = NoId

(***************************************************************************)
(* Users, their carts and the items in them                                *)
(***************************************************************************)
NextCarts ==
    \/ \E n \in 1..2 : UserSave(NoId, ModelUser(n, n, PwGood))
    \/ \E id \in 1..MaxUsers : UserDelete(id)
    \/ UnitSave(NoId, ValidUnit)
    \/ ProductSave(NoId, ValidProduct(1, 0))
    \/ \E id \in 1..MaxProducts : ProductDelete(id)
    \/ \E c \in CartInputs : CartCreate(c)
    \/ \E id \in 1..MaxCarts : CartDelete(id)
    \/ \E c \in 1..MaxCarts, p \in 1..MaxProducts :
          CartItemSave(NoId, [id |-> NoId, cart |-> c, product |-> p, quantity |-> 1])

SpecCarts == Init /\ [][NextCarts]_vars

(***************************************************************************)
(* The items of one user's carts                                           *)
(***************************************************************************)
NextItems ==
    \/ UserSave(NoId, ModelUser(1, 1, PwGood))
    \/ UnitSave(NoId, ValidUnit)
    \/ ProductSave(NoId, ValidProduct(1, 0))
    \/ CartCreate([id |-> NoId, user |-> 1])
    \/ \E id \in 0..MaxItems, i \in CartItemInputs : CartItemSave(id, i)

SpecItems == Init /\ [][NextItems]_vars

\* C4: saving a CartItem whose quantity is 0 or negative is rejected by the
\* item's validation (CartItem.clean raises: ValueError for the quantity when
\* the cart and the product are set) and the number of stored CartItems is
\* unchanged; every stored CartItem has quantity > 0.
C4_QuantityPositive ==
    [][/\ \A i \in db'.items : i.quantity > 0
       /\ (last'.op = "CartItem.save" /\ last'.arg.quantity <= 0)
             => /\ last'.result \in {"ValueError", "ObjectDoesNotExist"}
                /\ (last'.arg.cart # NoId /\ last'.arg.product # NoId)
                      => last'.result = "ValueError"
                /\ Cardinality(db'.items) = Cardinality(db.items)
                /\ db'.items = db.items]_vars

\* An item of quantity 0 or less for a stored cart and a stored product was
\* refused while an item is stored.
C4_Witness ==
    /\ last.op = "CartItem.save"
    /\ last.arg.quantity <= 0
    /\ last.arg.cart \in Ids(db.carts)
    /\ last.arg.product \in Ids(db.products)
    /\ last.result = "ValueError"
    /\ db.items # {}

\* C6: deleting a user removes every Cart of that user and every CartItem in
\* those carts; deleting a Cart removes every CartItem in it; in both cases
\* the Products the removed items refer to remain stored.
C6_CartCascade ==
    [][/\ last'.op = "CustomerUser.delete"
             => /\ \A c \in db.carts :
                      c.user = last'.arg.id
                         => /\ c.id \notin Ids(db'.carts)
                            /\ \A i \in db'.items : i.cart # c.id
                /\ \A c \in db'.carts : c.user # last'.arg.id
                /\ \A i \in db'.items : i.cart \in Ids(db'.carts)
                /\ db'.products = db.products
       /\ last'.op = "Cart.delete"
             => /\ last'.arg.id \notin Ids(db'.carts)
                /\ \A i \in db'.items : i.cart # last'.arg.id
                /\ db'.products = db.products]_vars

\* A user who owned a cart holding an item has been deleted, and the item's
\* product is still stored.
C6_Witness ==
    /\ last.op = "CustomerUser.delete"
    /\ last.arg.seen.carts # {}
    /\ last.arg.seen.items # {}
    /\ \A i \in last.arg.seen.items : i.product \in Ids(db.products)
    /\ db.carts = {}
    /\ db.items = {}

(***************************************************************************)
(* Registrations served concurrently                                       *)
(***************************************************************************)
NextRace ==
    \/ \E n \in 1..2, e \in 1..2 : UserSave(NoId, ModelUser(n, e, PwGood))
    \/ \E id \in 1..MaxUsers : UserDelete(id)
    \/ \E req \in RaceInputs : Register(0, req)
    \/ \E req \in RaceInputs : RegisterBegin(0, req)
    \/ \E req \in RaceInputs : RegisterFinish(req)

SpecRace == Init /\ [][NextRace]_vars

\* No two stored users share a username or an email.
UsersUnique(d) ==
    \A a, b \in d.users : a.id # b.id => (a.username # b.username /\ a.email # b.email)

\* C5: when a user with username u and email e is stored, a registration
\* that reuses u or e fails, creates no second user and leaves the first
\* user stored unchanged; in no reachable state, however registrations
\* interleave, do two stored users share a username or an email.
C5_UniqueUsers ==
    [][/\ UsersUnique(db')
       /\ (/\ last'.op = "register"
           /\ \E o \in db.users :
                 o.username = last'.arg.username \/ o.email = last'.arg.email)
             => /\ last'.status \in {400, 500}
                /\ db'.users = db.users
                /\ db'.tokens = db.tokens]_vars

\* A registration that passed validation before another one with the same
\* username was stored has failed at the unique constraint.
C5_Witness ==
    /\ last.op = "register"
    /\ last.result = "IntegrityError"
    /\ last.status = 500
    /\ \E o \in db.users : o.username = last.arg.username /\ o.email # last.arg.email

(***************************************************************************)
(* Registration and login                                                  *)
(***************************************************************************)
NextUsers ==
    \/ \E tok \in 0..1, req \in RegisterInputs : Register(tok, req)
    \/ \E tok \in 0..1, req \in LoginInputs : Login(tok, req)
    \/ \E tok \in 0..MaxKeys : Logout(tok)
    \/ \E n \in 1..2 : UserSave(NoId, ModelUser(n, n, PwGood))
    \/ \E id \in 1..MaxUsers : UserDelete(id)

SpecUsers == Init /\ [][NextUsers]_vars

\* The password rules of the claim C7.
WeakPassword(pw) ==
    \/ Len(pw) < 8
    \/ ~AnyChar(pw, UpperChars)
    \/ ~AnyChar(pw, LowerChars)
    \/ ~AnyChar(pw, DigitChars)
    \/ \A i \in 1..Len(pw) : pw[i] \in UpperChars \cup LowerChars \cup DigitChars

\* The rest of a registration is acceptable: every field is present, the
\* username and the email are new and the email is an address.
RestAcceptable(d, req) ==
    /\ RegisterFields \subseteq req.given
    /\ req.username # "" /\ req.email \in ValidEmails
    /\ \A o \in d.users : o.username # req.username /\ o.email # req.email

\* C7: a registration whose password is shorter than 8 characters or lacks
\* an uppercase letter, a lowercase letter, a digit or a non-alphanumeric
\* symbol is rejected with status 400 and no user is stored; the error is
\* keyed by password when the rest of the registration is acceptable (another
\* field's error takes its place otherwise).  The request carries no token,
\* or a stored one.
C7_WeakPasswordRejected ==
    [][(/\ last'.op = "register"
        /\ "password" \in last'.arg.given
        /\ WeakPassword(last'.arg.password)
        /\ ~AuthenticationFailed(db, last'.auth))
          => /\ last'.status = 400
             /\ last'.key # {}
             /\ RestAcceptable(db, last'.arg) => last'.key = {"password"}
             /\ db' = db]_vars

\* A registration that is acceptable but for its password of 7 characters, or
\* its password without a symbol, was rejected.
C7_Witness ==
    /\ last.op = "register"
    /\ last.arg.password \in {PwShort, PwNoSymbol}
    /\ RestAcceptable(db, last.arg)
    /\ last.status = 400
    /\ last.key = {"password"}

\* The supplied username and password are those of a stored user.
CredentialsMatch(d, req) ==
    /\ {"username", "password"} \subseteq req.given
    /\ \E u \in d.users :
          u.username = req.username /\ u.password = make_password(req.password)

\* C10: login returns 200 with the user's token exactly when the supplied
\* username and password match a stored user; in every other case (wrong
\* password, unknown username, missing username or password) it returns 400
\* and creates no token.  The request carries no token, or a stored one.
C10_Login ==
    [][(last'.op = "login" /\ ~AuthenticationFailed(db, last'.auth))
          => IF CredentialsMatch(db, last'.arg)
             THEN /\ last'.status = 200
                  /\ \E t \in db'.tokens :
                        /\ t.key = last'.token
                        /\ Row(db.users, t.user).username = last'.arg.username
                  /\ db'.users = db.users
             ELSE /\ last'.status = 400
                  /\ db'.tokens = db.tokens
                  /\ nextKey' = nextKey]_vars

\* A login with a wrong password was refused for a stored user who has no
\* token, and none was made.
C10_Witness ==
    /\ last.op = "login"
    /\ last.status = 400
    /\ {"username", "password"} \subseteq last.arg.given
    /\ \E u \in db.users :
          /\ u.username = last.arg.username
          /\ u.password.kind = "hash"
          /\ u.password # make_password(last.arg.password)
          /\ ~HasToken(db, u.id)

(***************************************************************************)
(* Product requests, with the faults of the database and the storage       *)
(***************************************************************************)
NextShop ==
    \/ Register(0, RegisterRequest(RegisterFields, 1, 1, PwGood))
    \/ UnitSave(NoId, ValidUnit)
    \/ \E n \in {"Electronics", "Books"} :
          CategorySave(NoId, [id |-> NoId, name |-> n, parent |-> NoId])
    \/ \E c \in ShopCalls : ProductCreate(c.tok, c.req, c.fault)
    \/ \E pk \in 1..MaxProducts : ProductDestroy(1, pk)

SpecShop == Init /\ [][NextShop]_vars

\* C8: a product-create request commits all of its writes (the Product row,
\* its ProductCategory rows and its Image row) or none of them: after a
\* create request that fails at any step, no Product, ProductCategory or
\* Image row written by the request is stored.
C8_CreateAtomic ==
    [][last'.op = "product.create"
          => IF last'.status = 201
             THEN LET pid == NewId(db.products, MaxProducts)
                  IN  /\ Ids(db'.products) = Ids(db.products) \cup {pid}
                      /\ ProductCategoryIds(db', pid)
                            = UNION {CategoriesNamed(db, last'.arg.req.categories[i]) :
                                        i \in 1..Len(last'.arg.req.categories)}
                      /\ Cardinality(ProductCategoryIds(db', pid))
                            = Len(last'.arg.req.categories)
                      /\ Cardinality(ProductImages(db', pid)) = last'.arg.req.image
                      /\ {l \in db'.links : l.product # pid} = db.links
                      /\ {i \in db'.images : i.product # pid} = db.images
             ELSE /\ db'.products = db.products
                  /\ db'.links = db.links
                  /\ db'.images = db.images]_vars

\* A create request with a category and an upload failed when its image row
\* was inserted, after its product row and its link were written; nothing
\* of it is stored.
C8_Witness ==
    /\ last.op = "product.create"
    /\ last.arg.fault = "image_row"
    /\ last.arg.req.categories # <<>>
    /\ last.result = "DatabaseError"
    /\ last.status = 500
    /\ db.products = {}
    /\ db.links = {}
    /\ db.images = {}

(***************************************************************************)
(* Every view, with and without a token                                    *)
(***************************************************************************)
NextApi ==
    \/ Register(0, RegisterRequest(RegisterFields, 1, 1, PwGood))
    \/ Login(0, [given |-> {"username", "password"}, username |-> Usernames[1],
                 password |-> PwGood])
    \/ \E tok \in 0..2 : Logout(tok)
    \/ \E tok \in 0..2 :
          ChangePassword(tok, [given |-> {"old_password", "new_password"},
                               old_password |-> PwGood, new_password |-> PwOther])
    \/ \E tok \in 0..2, req \in ProfileInputs : ProfilePut(tok, req)
    \/ UnitSave(NoId, ValidUnit)
    \/ \E tok \in 0..2 : ProductCreate(tok, ProductRequest(<<>>, 1), "none")
    \/ \E tok \in 0..2, pk \in 1..MaxProducts :
          ProductUpdate(tok, pk, [ProductRequest(<<>>, 0) EXCEPT !.name = "Renamed"], "none")
    \/ \E tok \in 0..2, pk \in 1..MaxProducts : ProductDestroy(tok, pk)
    \/ \E tok \in 0..2 : ProductList(tok)
    \/ \E tok \in 0..2, pk \in 1..MaxProducts : ProductRetrieve(tok, pk)

SpecApi == Init /\ [][NextApi]_vars

MutatingViews ==
    {"product.create", "product.update", "product.destroy", "logout", "profile.put",
     "change_password"}

\* C9: every mutating request other than register and login (product
\* create, update and delete; logout; profile update; password change) that
\* carries no valid token is rejected and changes no stored state, while
\* product list and retrieve are served without a token.
C9_TokenRequired ==
    [][/\ (last'.op \in MutatingViews /\ TokenUser(db, last'.auth) = NoId)
             => /\ last'.status = 401
                /\ db' = db
                /\ files' = files
       /\ (last'.op = "product.list" /\ last'.auth = 0) => last'.status = 200
       /\ (last'.op = "product.retrieve" /\ last'.auth = 0)
             => last'.status = IF last'.arg \in Ids(db.products) THEN 200 ELSE 404]_vars

\* A product-create request without a token was rejected while a user
\* holds a token and a unit is stored (the request would have been served
\* with the token).
C9_Witness ==
    /\ last.op = "product.create"
    /\ last.auth = 0
    /\ last.status = 401
    /\ db.tokens # {}
    /\ db.units # {}
    /\ db.products = {}

(***************************************************************************)
(* Sessions: two users, every protected view, with each token              *)
(***************************************************************************)
NextSessions ==
    \/ \E n \in 1..2 : Register(0, RegisterRequest(RegisterFields, n, n, PwGood))
    \/ \E n \in 1..2 :
          Login(0, [given |-> {"username", "password"}, username |-> Usernames[n],
                    password |-> PwGood])
    \/ \E tok \in 0..MaxKeys : Logout(tok)
    \/ \E tok \in 0..MaxKeys :
          ChangePassword(tok, [given |-> {"old_password", "new_password"},
                               old_password |-> PwGood, new_password |-> PwGood])
    \/ \E tok \in 0..MaxKeys : ProfileGet(tok)
    \/ \E tok \in 0..MaxKeys, req \in ProfileInputs : ProfilePut(tok, req)
    \/ UnitSave(NoId, ValidUnit)
    \/ \E tok \in 0..MaxKeys : ProductCreate(tok, ProductRequest(<<>>, 0), "none")
    \/ \E tok \in 0..MaxKeys, pk \in 1..MaxProducts :
          ProductUpdate(tok, pk, [ProductRequest(<<>>, 0) EXCEPT !.name = "Renamed"], "none")
    \/ \E tok \in 0..MaxKeys, pk \in 1..MaxProducts : ProductDestroy(tok, pk)

SpecSessions == Init /\ [][NextSessions]_vars

\* The views whose permission class requires an authenticated user.
ProtectedViews ==
    {"logout", "change_password", "profile.get", "profile.put",
     "product.create", "product.update", "product.destroy"}

\* The keys of the stored tokens.
TokenKeys(d) == {t.key : t \in d.tokens}

\* C11: logout with a valid token deletes the authenticated user's token (and
\* no other) and returns 200; from that logout on the token stays deleted,
\* and every request to a protected view that presents a deleted token is
\* answered with 401 and changes nothing; a logout without a token or with
\* an unknown token returns 401 and deletes nothing.
C11_Logout ==
    /\ [][last'.op = "logout"
             => IF TokenUser(db, last'.auth) # NoId
                THEN /\ last'.status = 200
                     /\ db'.tokens = {t \in db.tokens : t.key # last'.auth}
                     /\ db'.users = db.users
                ELSE /\ last'.status = 401
                     /\ db' = db]_vars
    /\ \A k \in 1..MaxKeys :
          []((last.op = "logout" /\ last.auth = k /\ last.status = 200)
                => [](k \notin TokenKeys(db)))
    /\ [][(last'.op \in ProtectedViews /\ last'.auth # 0
              /\ last'.auth \notin TokenKeys(db))
             => (last'.status = 401 /\ db' = db)]_vars

\* After a logout that deleted one user's token while another user keeps
\* theirs, a protected request that presents the deleted token was refused.
C11_Witness ==
    /\ last.op \in ProtectedViews \ {"logout"}
    /\ last.auth # 0
    /\ last.auth <= nextKey
    /\ last.status = 401
    /\ \A t \in db.tokens : t.key # last.auth
    /\ db.tokens # {}

(***************************************************************************)
(* Password changes                                                        *)
(***************************************************************************)
\* The body of a password change: both passwords, one of them, or neither;
\* the old one right, wrong or blank; the new one good, blank, or breaking
\* one rule.
PasswordInputs ==
    {[given |-> {"old_password", "new_password"}, old_password |-> o, new_password |-> n] :
        o \in {PwGood, PwOther, <<>>},
        n \in {PwGood, PwOther, PwShort, PwNoUpper, PwNoLower, PwNoDigit, PwNoSymbol,
               PwSpace, <<>>}}
    \cup {[given |-> g, old_password |-> PwGood, new_password |-> PwOther] :
             g \in {{"old_password"}, {"new_password"}, {}}}

NextPasswords ==
    \/ \E n \in 1..2 : Register(0, RegisterRequest(RegisterFields, n, n, PwGood))
    \/ \E n \in 1..2, pw \in {PwGood, PwOther} :
          Login(0, [given |-> {"username", "password"}, username |-> Usernames[n],
                    password |-> pw])
    \/ \E tok \in 0..MaxKeys, req \in PasswordInputs : ChangePassword(tok, req)

SpecPasswords == Init /\ [][NextPasswords]_vars

\* Both passwords are supplied, the old one is the stored one and the new
\* one passes the password validation.
PasswordChangeAcceptable(u, req) ==
    /\ {"old_password", "new_password"} \subseteq req.given
    /\ req.old_password # <<>> /\ req.new_password # <<>>
    /\ u.password = make_password(req.old_password)
    /\ validate_password(req.new_password) = "ok"

\* C12: a password change by an authenticated user is answered 200 only when
\* the old password matches the stored one and the new password passes
\* validation, and afterwards the new password authenticates the user (and
\* nothing else of the user changed); when the old password is wrong, when
\* either password is missing, or when the new password fails validation, the
\* answer is 400 and the stored password is unchanged.
C12_ChangePassword ==
    [][(last'.op = "change_password" /\ TokenUser(db, last'.auth) # NoId)
          => LET u == Row(db.users, TokenUser(db, last'.auth))
             IN  IF PasswordChangeAcceptable(u, last'.arg)
                 THEN /\ last'.status = 200
                      /\ authenticate(db', [given |-> {"username", "password"},
                                            username |-> u.username,
                                            password |-> last'.arg.new_password]) = u.id
                      /\ db'.users = (db.users \ {u})
                            \cup {[u EXCEPT !.password = make_password(last'.arg.new_password)]}
                      /\ db'.tokens = db.tokens
                 ELSE /\ last'.status = 400
                      /\ db' = db]_vars

\* A user's password was changed to another one while a second user keeps
\* theirs.
C12_Witness ==
    /\ last.op = "change_password"
    /\ last.status = 200
    /\ last.arg.old_password # last.arg.new_password
    /\ \E u \in db.users :
          /\ u.id = TokenUser(db, last.auth)
          /\ u.password = make_password(last.arg.new_password)
          /\ \E o \in db.users : o.id # u.id /\ o.password # u.password

(***************************************************************************)
(* Profile updates                                                         *)
(***************************************************************************)
\* A phone number of 21 digits.
LongPhone == [i \in 1..21 |-> "1"]

\* The body of a profile update: the names, the email and the phone number,
\* as the view's tests send them; the first name blank or not; the email the
\* user's own, another user's, with its domain in capitals, or no address;
\* the phone number blank, well-formed, with a letter, or too long.
ProfileRequests ==
    {[given |-> {"email", "first_name", "last_name", "phone_number"}, username |-> "",
      email |-> e, password |-> <<>>, first_name |-> f, last_name |-> "User",
      phone_number |-> p] :
        e \in {"a@x.io", "b@x.io", "a@X.io", "invalidemail"},
        f \in {"", "Updated"},
        p \in {<<>>, <<"0", "9", "8">>, <<"+", "4", "4", "-", "1", "*", "#">>,
               <<"1", "a">>, LongPhone}}
    \cup {[given |-> {"email", "first_name", "last_name"}, username |-> "",
           email |-> "b@x.io", password |-> <<>>, first_name |-> "Other",
           last_name |-> "User", phone_number |-> <<>>]}

NextProfile ==
    \/ \E n \in 1..2 : Register(0, RegisterRequest(RegisterFields, n, n, PwGood))
    \/ \E tok \in 0..MaxKeys : ProfileGet(tok)
    \/ \E tok \in 0..MaxKeys, req \in ProfileRequests : ProfilePut(tok, req)

SpecProfile == Init /\ [][NextProfile]_vars

\* The update carries the names, the email and the phone number; the email
\* is an address in its stored form that no other user has; the phone number
\* holds at most 20 characters, all of them digits or *+#-; the names are not
\* empty; no username and no password is submitted.
ProfileAcceptable(d, u, req) ==
    /\ req.given = {"email", "first_name", "last_name", "phone_number"}
    /\ validate_email(req.email) /\ normalize_email(req.email) = req.email
    /\ \A o \in d.users : o.id # u.id => o.email # req.email
    /\ Len(req.phone_number) <= 20
    /\ \A i \in 1..Len(req.phone_number) : req.phone_number[i] \in PhoneChars
    /\ req.first_name # "" /\ req.last_name # ""

\* The update is one the claim C13 says is refused.
ProfileRefusable(req) ==
    \/ "first_name" \in req.given /\ req.first_name = ""
    \/ "email" \in req.given /\ ~validate_email(req.email)
    \/ "phone_number" \in req.given
          /\ \E i \in 1..Len(req.phone_number) : req.phone_number[i] \notin PhoneChars

\* C13: a profile update by an authenticated user with a valid email, a
\* valid phone number and non-empty first and last names stores exactly the
\* submitted values and returns 200; an update with an empty first name, an
\* invalid email, or a phone number containing characters other than digits
\* and *+#- returns 400 and leaves the stored user record unchanged.
C13_ProfileUpdate ==
    [][(last'.op = "profile.put" /\ TokenUser(db, last'.auth) # NoId)
          => LET u == Row(db.users, TokenUser(db, last'.auth))
             IN  /\ ProfileAcceptable(db, u, last'.arg)
                    => /\ last'.status = 200
                       /\ db'.users = (db.users \ {u})
                             \cup {[u EXCEPT !.email = last'.arg.email,
                                             !.first_name = last'.arg.first_name,
                                             !.last_name = last'.arg.last_name,
                                             !.phone_number = last'.arg.phone_number]}
                 /\ ProfileRefusable(last'.arg)
                    => (last'.status = 400 /\ db' = db)]_vars

\* An update with a blank phone number was answered 200 while the user's
\* stored phone number is still the one set before.
C13_Witness ==
    /\ last.op = "profile.put"
    /\ last.status = 200
    /\ "phone_number" \in last.arg.given
    /\ last.arg.phone_number = <<>>
    /\ Row(db.users, TokenUser(db, last.auth)).phone_number # <<>>

\* What the view does (C13 as the code has it): an acceptable update is
\* answered 200 and stores the submitted names and email, and the submitted
\* phone number unless it is blank, in which case the stored one is kept; an
\* update with an empty first name, an invalid email or a malformed phone
\* number is answered 400 and changes nothing.
C13_ProfileUpdateKeepsPhone ==
    [][(last'.op = "profile.put" /\ TokenUser(db, last'.auth) # NoId)
          => LET u == Row(db.users, TokenUser(db, last'.auth))
             IN  /\ ProfileAcceptable(db, u, last'.arg)
                    => /\ last'.status = 200
                       /\ db'.users = (db.users \ {u})
                             \cup {[u EXCEPT !.email = last'.arg.email,
                                             !.first_name = last'.arg.first_name,
                                             !.last_name = last'.arg.last_name,
                                             !.phone_number =
                                                 IF last'.arg.phone_number = <<>> THEN @
                                                 ELSE last'.arg.phone_number]}
                 /\ ProfileRefusable(last'.arg)
                    => (last'.status = 400 /\ db' = db)]_vars

(***************************************************************************)
(* Resolution of category and unit names                                   *)
(***************************************************************************)
\* Product requests without an upload: no category, a stored one, a missing
\* one; the unit stored, missing, blank or left out.
ResolveInputs ==
    {ProductRequest(c, 0) : c \in {<<>>, <<"Electronics">>, <<"Books">>, <<"Toys">>}}
    \cup {[ProductRequest(<<"Electronics">>, 0) EXCEPT !.unit = "Litre"],
          [ProductRequest(<<>>, 0) EXCEPT !.unit = ""],
          [ProductRequest(<<>>, 0) EXCEPT !.given = @ \ {"unit"}]}

NextResolve ==
    \/ Register(0, RegisterRequest(RegisterFields, 1, 1, PwGood))
    \/ UnitSave(NoId, ValidUnit)
    \/ \E n \in {"Electronics", "Books"} :
          CategorySave(NoId, [id |-> NoId, name |-> n, parent |-> NoId])
    \/ \E req \in ResolveInputs : ProductCreate(1, req, "none")
    \/ \E pk \in 1..MaxProducts, req \in ResolveInputs : ProductUpdate(1, pk, req, "none")
    \/ \E pk \in 1..MaxProducts : ProductDestroy(1, pk)

SpecResolve == Init /\ [][NextResolve]_vars

\* The request reached the resolution of its names: it was authenticated
\* and, for an update, its product is stored.
Resolving(d, r) ==
    /\ r.op \in {"product.create", "product.update"}
    /\ r.status # 401
    /\ r.op = "product.update" => r.arg.pk \in Ids(d.products)

\* A supplied name that no stored row has.
NameMissing(d, req) ==
    \/ \E i \in 1..Len(req.categories) : CategoriesNamed(d, req.categories[i]) = {}
    \/ ~Has(req, "unit") \/ UnitsNamed(d, req.unit) = {}

\* C14: for every product create or update request, each supplied category
\* name and the supplied unit name is either resolved to the identifier of
\* an existing row with that name, or the request fails with a not-found
\* signal; resolution never creates a Category or Unit row, whatever rows
\* (including rows with equal names) are stored.
C14_Resolution ==
    [][Resolving(db, last')
          => /\ db'.categories = db.categories
             /\ db'.units = db.units
             /\ IF NameMissing(db, last'.arg.req)
                THEN last'.result = "NotFound" /\ last'.status = 404 /\ db' = db
                ELSE /\ last'.result = "ok"
                     /\ last'.status \in {200, 201}
                          => LET pid == IF last'.op = "product.update" THEN last'.arg.pk
                                        ELSE NewId(db.products, MaxProducts)
                             IN  /\ Row(db'.products, pid).unit
                                       \in UnitsNamed(db, last'.arg.req.unit)
                                 /\ \A i \in 1..Len(last'.arg.req.categories) :
                                       ProductCategoryIds(db', pid)
                                          \cap CategoriesNamed(db, last'.arg.req.categories[i])
                                       # {}]_vars

\* A create request that names a category was answered 500 while two stored
\* categories have that name and the unit is stored.
C14_Witness ==
    /\ last.op = "product.create"
    /\ last.result = "MultipleObjectsReturned"
    /\ last.status = 500
    /\ Cardinality(CategoriesNamed(db, last.arg.req.categories[1])) = 2
    /\ UnitsNamed(db, last.arg.req.unit) # {}

\* What the view does (C14 as the code has it): a name that no row has fails
\* the request with not-found, a name that exactly one row has is resolved to
\* that row, a name that several rows have fails the request with an
\* unhandled MultipleObjectsReturned; no Category or Unit row is created.
C14_ResolutionOfUniqueNames ==
    [][Resolving(db, last')
          => /\ db'.categories = db.categories
             /\ db'.units = db.units
             /\ IF \E i \in 1..Len(last'.arg.req.categories) :
                      /\ Cardinality(CategoriesNamed(db, last'.arg.req.categories[i])) > 1
                      /\ \A j \in 1..(i - 1) :
                            CategoriesNamed(db, last'.arg.req.categories[j]) # {}
                THEN last'.result = "MultipleObjectsReturned" /\ last'.status = 500 /\ db' = db
                ELSE IF NameMissing(db, last'.arg.req)
                THEN last'.result = "NotFound" /\ last'.status = 404 /\ db' = db
                ELSE /\ last'.result = "ok"
                     /\ last'.status \in {200, 201}]_vars

(***************************************************************************)
(* Creation of rows whose references are missing                           *)
(***************************************************************************)
WishlistInputs == [id : {NoId}, user : 0..MaxUsers, products : {{}}]

\* One unit, category, user, product and cart are stored, in any order;
\* rows that refer to them, to rows that are not stored, or to nothing are
\* created at any time.
NextReferences ==
    \/ db.units = {} /\ UnitSave(NoId, ValidUnit)
    \/ db.categories = {} /\ CategorySave(NoId, ValidCategory(NoId))
    \/ db.users = {} /\ UserSave(NoId, ModelUser(1, 1, PwGood))
    \/ \E p \in {ValidProduct(u, 0) : u \in 0..1}
                   \cup {[ValidProduct(0, 0) EXCEPT !.name = ""]} :
          db.products = {} /\ ProductSave(NoId, p)
    \/ \E c \in CartInputs : db.carts = {} /\ CartCreate(c)
    \/ \E i \in CartItemInputs : CartItemSave(NoId, i)
    \/ \E i \in ImageInputs : ImageCreate(i)
    \/ \E l \in LinkInputs : LinkCreate(l)
    \/ \E w \in WishlistInputs : WishlistCreate(w)

SpecReferences == Init /\ [][NextReferences]_vars

\* The creation of a row that lacks a reference, and the table of its entity.
LacksReference(r) ==
    \/ r.op = "Product.save" /\ r.arg.id = NoId /\ r.arg.unit = NoId
    \/ r.op = "CartItem.save" /\ r.arg.id = NoId
          /\ (r.arg.cart = NoId \/ r.arg.product = NoId)
    \/ r.op = "Image.create" /\ r.arg.product = NoId
    \/ r.op = "Wishlist.create" /\ r.arg.user = NoId
    \/ r.op = "ProductCategory.create"
          /\ (r.arg.product = NoId \/ r.arg.category = NoId)

\* The other fields of the row are valid.
RestValid(r) ==
    /\ r.op = "Product.save" => ProductClean([r.arg EXCEPT !.unit = 1]) = "ok"
    /\ r.op = "Image.create" => r.arg.image_file # NoId

\* C15: creating a Product without a unit, a CartItem without a cart or
\* without a product, an Image without a product, a Wishlist without a user,
\* or a ProductCategory without a product or without a category fails, with a
\* reference-missing or integrity error when the row's other fields are valid
\* (a validation error of another field comes first otherwise), and no row
\* is stored.
C15_MissingReference ==
    [][LacksReference(last')
          => /\ last'.result # "ok"
             /\ RestValid(last')
                   => last'.result \in {"ObjectDoesNotExist", "IntegrityError"}
             /\ db' = db]_vars

\* A wishlist without a user was refused while a user is stored.
C15_Witness ==
    /\ last.op = "Wishlist.create"
    /\ last.arg.user = NoId
    /\ last.result = "ObjectDoesNotExist"
    /\ db.users # {}
    /\ db.wishlists = {}

(***************************************************************************)
(* Registration: what is answered and what is stored                       *)
(***************************************************************************)
\* The fields a registration omits, and email when it is no valid address.
DefectFields(req) ==
    (RegisterFields \ req.given)
    \cup (IF "email" \in req.given /\ ~validate_email(req.email) THEN {"email"} ELSE {})

\* The fields the registration does supply are acceptable: the username and
\* the email are not blank and new, the password meets the rules.
SuppliedAcceptable(d, req) ==
    /\ "username" \in req.given
          => (req.username # "" /\ \A o \in d.users : o.username # req.username)
    /\ "email" \in req.given
          => (req.email # "" /\ \A o \in d.users : o.email # req.email)
    /\ "password" \in req.given => ~WeakPassword(req.password)

\* C16: a successful registration returns 201 with a token, and that token
\* authenticates as the newly stored user, who is a member of the group
\* user_customers; a registration that omits username, password, email,
\* first name or last name, or gives an invalid email, returns 400 and stores
\* neither a user nor a token; the error is keyed by that field when it is
\* the request's only defect.  The request carries no token, or a stored one.
C16_Register ==
    [][(last'.op = "register" /\ ~AuthenticationFailed(db, last'.auth))
          => /\ last'.status = 201
                   => LET uid == TokenUser(db', last'.token)
                      IN  /\ last'.key = {"token"}
                          /\ TokenUser(db, last'.token) = NoId
                          /\ uid # NoId /\ uid \notin Ids(db.users)
                          /\ Ids(db'.users) = Ids(db.users) \cup {uid}
                          /\ Row(db'.users, uid).username = last'.arg.username
                          /\ check_password(last'.arg.password, Row(db'.users, uid).password)
                          /\ "user_customers" \in Row(db'.users, uid).groups
                          /\ \A o \in db.users : o \in db'.users
             /\ DefectFields(last'.arg) # {}
                   => /\ last'.status = 400
                      /\ last'.key # {}
                      /\ db'.users = db.users
                      /\ db'.tokens = db.tokens
                      /\ (Cardinality(DefectFields(last'.arg)) = 1
                             /\ SuppliedAcceptable(db, last'.arg))
                            => last'.key = DefectFields(last'.arg)]_vars

\* A registration without a first name was refused, after another one had
\* succeeded: its user is stored, in the group, and holds a token.
C16_Witness ==
    /\ last.op = "register"
    /\ last.status = 400
    /\ last.key = {"first_name"}
    /\ "first_name" \notin last.arg.given
    /\ Cardinality(db.users) = 1
    /\ \E u \in db.users :
          /\ u.username # last.arg.username
          /\ "user_customers" \in u.groups
          /\ u.password.kind = "hash"
          /\ HasToken(db, u.id)

(***************************************************************************)
(* CustomerUser rows written by the model's own save                       *)
(***************************************************************************)
\* 'Password123': upper case, lower case and digits, no symbol.
Password123 == <<"P", "a", "s", "s", "w", "o", "r", "d", "1", "2", "3">>

\* User names of 3, 4, 20 and 21 characters.
BoundaryUsernames == {"abc", "abcd", "abcdefghijklmnopqrst", "abcdefghijklmnopqrstu"}

\* CustomerUser.objects.create(...) with valid fields and each password, and
\* with one field empty, malformed, too short or too long; and
\* CustomerUser.objects.create_user(...), which hashes the password.
ModelUserInputs ==
    {ModelUser(n, n, pw) : n \in 1..2, pw \in {PwGood, Password123, PwShort, <<>>}}
    \cup {[ModelUser(1, 1, PwGood) EXCEPT !.username = x] :
             x \in {""} \cup BoundaryUsernames}
    \cup {[ModelUser(1, 1, PwGood) EXCEPT !.email = x] : x \in {"", "not-an-address"}}
    \cup {[ModelUser(1, 1, PwGood) EXCEPT !.first_name = ""],
          [ModelUser(1, 1, PwGood) EXCEPT !.last_name = ""]}
    \cup {[ModelUser(2, 2, PwGood) EXCEPT !.phone_number = x] :
             x \in {<<"0", "9", "8">>, <<"1", "a">>, LongPhone}}
    \cup {[ModelUser(2, 2, pw) EXCEPT !.password = make_password(pw)] :
             pw \in {PwGood, PwShort}}

NextModelUsers ==
    \/ \E u \in ModelUserInputs : UserSave(NoId, u)
    \/ \E id \in 1..MaxUsers, u \in ModelUserInputs : UserSave(id, u)
    \/ \E id \in 1..MaxUsers : UserDelete(id)

SpecModelUsers == Init /\ [][NextModelUsers]_vars

\* C17: creating a CustomerUser with a username of 4 to 20 characters, a
\* valid email (that no stored user has), non-empty first and last names and
\* the password 'Password123' succeeds, and the string form of the stored
\* user is its username.
C17_Password123Accepted ==
    [][(/\ last'.op = "CustomerUser.save"
        /\ last'.arg.id = NoId
        /\ last'.arg.password = RawPassword(Password123)
        /\ Len(last'.arg.username) >= 4 /\ Len(last'.arg.username) <= 20
        /\ validate_email(last'.arg.email)
        /\ last'.arg.first_name # "" /\ last'.arg.last_name # ""
        /\ \A o \in db.users :
              o.username # last'.arg.username /\ o.email # last'.arg.email)
          => /\ last'.result = "ok"
             /\ \E u \in db'.users \ db.users : UserStr(u) = last'.arg.username]_vars

\* The creation of such a user was refused by clean, and nothing is stored.
C17_Witness ==
    /\ last.op = "CustomerUser.save"
    /\ last.arg.id = NoId
    /\ last.arg.password = RawPassword(Password123)
    /\ last.arg.username = Usernames[1]
    /\ last.result = "ValidationError"
    /\ db.users = {}

\* What the model does (C17 as the code has it): the creation of such a user
\* is refused with a validation error, since the password has no symbol, and
\* no user is stored; with a password that meets every rule it succeeds and
\* the string form of the stored user is its username.
C17_Password123Refused ==
    [][(/\ last'.op = "CustomerUser.save"
        /\ last'.arg.id = NoId
        /\ last'.arg.password \in {RawPassword(Password123), RawPassword(PwGood)}
        /\ Len(last'.arg.username) >= 4 /\ Len(last'.arg.username) <= 20
        /\ validate_email(last'.arg.email)
        /\ last'.arg.first_name # "" /\ last'.arg.last_name # ""
        /\ Len(last'.arg.phone_number) <= 20
        /\ \A o \in db.users :
              o.username # last'.arg.username /\ o.email # last'.arg.email)
          => IF last'.arg.password = RawPassword(Password123)
             THEN last'.result = "ValidationError" /\ db' = db
             ELSE /\ last'.result = "ok"
                  /\ \E u \in db'.users \ db.users : UserStr(u) = last'.arg.username]_vars

\* A field of the row is empty, malformed, too short or too long, as the
\* claim C18 lists them; the password is the text of the password field.
UserFieldsDefective(u) ==
    \/ u.username = "" \/ u.email = "" \/ PasswordText(u.password) = <<>>
    \/ u.first_name = "" \/ u.last_name = ""
    \/ ~validate_email(u.email)
    \/ Len(u.username) < 4 \/ Len(u.username) > 20
    \/ Len(PasswordText(u.password)) < 8
    \/ Len(u.phone_number) > 20

\* C18: saving a CustomerUser is rejected with a validation error, and no
\* user is stored or changed, when the username, email, password, first name
\* or last name is empty, when the email is not a valid address, when the
\* username is shorter than 4 or longer than 20 characters, when the password
\* is shorter than 8 characters, or when the phone number is longer than 20
\* characters.
C18_UserFieldsChecked ==
    [][(last'.op = "CustomerUser.save" /\ UserFieldsDefective(last'.arg))
          => (last'.result = "ValidationError" /\ db' = db)]_vars

\* The save of a stored user with a phone number of 21 characters was
\* refused, and the stored user keeps the phone number it had.
C18_Witness ==
    /\ last.op = "CustomerUser.save"
    /\ last.arg.id # NoId
    /\ Len(last.arg.phone_number) = 21
    /\ last.result = "ValidationError"
    /\ Len(Row(db.users, last.arg.id).phone_number) \in 1..20

(***************************************************************************)
(* Registrations with user names around the limits                         *)
(***************************************************************************)
SignupInputs ==
    {[RegisterRequest(RegisterFields, 1, e, pw) EXCEPT !.username = x] :
        e \in 1..2, pw \in {PwGood, PwNoSymbol},
        x \in {"", Usernames[1]} \cup BoundaryUsernames}

NextSignup ==
    \/ \E tok \in 0..1, req \in SignupInputs : Register(tok, req)
    \/ \E tok \in 0..MaxKeys : Logout(tok)
    \/ \E id \in 1..MaxUsers : UserDelete(id)

SpecSignup == Init /\ [][NextSignup]_vars

\* C19: a registration whose username is shorter than 4 or longer than 20
\* characters is rejected as a validation failure, answered with status 400
\* and a field-keyed message, and no user is stored.  The request carries no
\* token, or a stored one.
C19_UsernameLength ==
    [][(/\ last'.op = "register"
        /\ ~AuthenticationFailed(db, last'.auth)
        /\ "username" \in last'.arg.given
        /\ (Len(last'.arg.username) < 4 \/ Len(last'.arg.username) > 20))
          => /\ last'.status = 400
             /\ last'.key # {}
             /\ db' = db]_vars

\* A registration with a username of 3 characters, acceptable otherwise,
\* ended with the model's validation error leaving the view.
C19_Witness ==
    /\ last.op = "register"
    /\ Len(last.arg.username) = 3
    /\ last.arg.password = PwGood
    /\ last.result = "ValidationError"
    /\ last.status = 500
    /\ db.users = {}

\* What the view does (C19 as the code has it): such a registration stores no
\* user and no token; when the request is acceptable to the serializer (a
\* username that is not blank, the rest acceptable) the validation error of
\* CustomerUser.clean leaves the view unhandled and the answer is 500, and
\* 400 otherwise.
C19_UsernameLengthUnhandled ==
    [][(/\ last'.op = "register"
        /\ ~AuthenticationFailed(db, last'.auth)
        /\ "username" \in last'.arg.given
        /\ (Len(last'.arg.username) < 4 \/ Len(last'.arg.username) > 20))
          => /\ db' = db
             /\ IF SerializerErrors(db, NoId, last'.arg, FALSE) = {}
                THEN last'.result = "ValidationError" /\ last'.status = 500
                ELSE last'.status = 400 /\ last'.key # {}]_vars

(***************************************************************************)
(* Phone numbers, by each way a user is written                            *)
(***************************************************************************)
\* Registrations that carry a phone number: blank, well-formed, with a
\* letter, too long.
PhoneSignups ==
    {[RegisterRequest(RegisterFields \cup {"phone_number"}, 1, 1, PwGood)
         EXCEPT !.phone_number = p] :
        p \in {<<>>, <<"0", "9", "8">>, <<"1", "a">>, LongPhone}}

NextPhones ==
    \/ \E req \in PhoneSignups : Register(0, req)
    \/ \E tok \in 0..MaxKeys,
          req \in {r \in ProfileRequests : r.first_name # "" /\ r.email \in {"a@x.io", "b@x.io"}} :
          ProfilePut(tok, req)
    \/ \E id \in 0..MaxUsers, u \in {x \in ModelUserInputs : x.username = Usernames[2]} :
          UserSave(id, u)
    \/ \E id \in 1..MaxUsers : UserDelete(id)

SpecPhones == Init /\ [][NextPhones]_vars

\* Empty, or at most 20 characters, all of them digits or *+#-.
PhoneWellFormed(p) ==
    p = <<>> \/ (Len(p) <= 20 /\ \A i \in 1..Len(p) : p[i] \in PhoneChars)

\* C20: in every reachable state, the phone_number of every stored
\* CustomerUser is either empty or at most 20 characters long and made only
\* of digits and the symbols *+#-, whether the user was written by
\* registration, by profile update or by a direct model save.
C20_PhoneNumbers == \A u \in db.users : PhoneWellFormed(u.phone_number)

\* A direct save stored a user whose phone number contains a letter.
C20_Witness ==
    /\ last.op = "CustomerUser.save"
    /\ last.result = "ok"
    /\ \E u \in db.users :
          /\ u.username = last.arg.username
          /\ u.phone_number = last.arg.phone_number
          /\ \E i \in 1..Len(u.phone_number) : u.phone_number[i] \notin PhoneChars

\* What the code does (C20 as the code has it): every stored phone number
\* holds at most 20 characters; a registration or a profile update sets
\* only well-formed phone numbers; a direct model save tests the length alone.
C20_PhoneNumbersByWriter ==
    /\ [](\A u \in db.users : Len(u.phone_number) <= 20)
    /\ [][last'.op \in {"register", "profile.put"}
             => \A u \in db'.users :
                   (\/ u.id \notin Ids(db.users)
                    \/ Row(db.users, u.id).phone_number # u.phone_number)
                      => PhoneWellFormed(u.phone_number)]_vars

(***************************************************************************)
(* Deletion of a product with its images, links and cart items             *)
(***************************************************************************)
\* One unit, category, user and cart are stored; products, images, links
\* and cart items that refer to stored rows come and go.
NextProductDelete ==
    \/ db.units = {} /\ UnitSave(NoId, ValidUnit)
    \/ db.categories = {} /\ CategorySave(NoId, ValidCategory(NoId))
    \/ db.users = {} /\ UserSave(NoId, ModelUser(1, 1, PwGood))
    \/ db.carts = {} /\ CartCreate([id |-> NoId, user |-> 1])
    \/ ProductSave(NoId, ValidProduct(1, 0))
    \/ \E p \in 1..MaxProducts : ImageCreate([id |-> NoId, image_file |-> 1, product |-> p])
    \/ \E p \in 1..MaxProducts : LinkCreate([id |-> NoId, product |-> p, category |-> 1])
    \/ \E p \in 1..MaxProducts :
          CartItemSave(NoId, [id |-> NoId, cart |-> 1, product |-> p, quantity |-> 1])
    \/ \E id \in 1..MaxProducts : ProductDelete(id)

SpecProductDelete == Init /\ [][NextProductDelete]_vars

\* No row of d refers to the product, and the product is not stored.
ProductGone(d, pid) ==
    /\ pid \notin Ids(d.products)
    /\ \A i \in d.images : i.product # pid
    /\ \A l \in d.links : l.product # pid
    /\ \A i \in d.items : i.product # pid

\* C21: deleting a Product removes every Image row that references it,
\* however many there are, together with each image's backing file, and
\* removes every ProductCategory and CartItem row that references it; the
\* delete completes for a product with zero, one or several images.
C21_ProductDelete ==
    [][last'.op = "Product.delete"
          => /\ last'.result = "ok"
             /\ ProductGone(db', last'.arg.id)
             /\ \A i \in ProductImages(db, last'.arg.id) : i.image_file \notin files']_vars

\* The delete of a product with two images, a link and a cart item raised,
\* and the product and all of its rows are still stored.
C21_Witness ==
    /\ last.op = "Product.delete"
    /\ last.result = "MultipleObjectsReturned"
    /\ Cardinality(last.arg.seen) = 2
    /\ last.arg.id \in Ids(db.products)
    /\ Cardinality(ProductImages(db, last.arg.id)) = 2
    /\ \E l \in db.links : l.product = last.arg.id
    /\ \E i \in db.items : i.product = last.arg.id

\* What the model does (C21 as the code has it): the delete of a product
\* with no image or one image completes and removes the product, its image
\* with the image's file, its links and its cart items; the delete of a
\* product with several images raises MultipleObjectsReturned and removes
\* nothing.
C21_ProductDeleteUpToOneImage ==
    [][last'.op = "Product.delete"
          => IF Cardinality(ProductImages(db, last'.arg.id)) <= 1
             THEN /\ last'.result = "ok"
                  /\ ProductGone(db', last'.arg.id)
                  /\ \A i \in ProductImages(db, last'.arg.id) : i.image_file \notin files'
             ELSE /\ last'.result = "MultipleObjectsReturned"
                  /\ db' = db
                  /\ files' = files]_vars

(***************************************************************************)
(* Wishlists and their products                                            *)
(***************************************************************************)
\* One unit and two users are stored; products come and go, wishlists are
\* created, and products, other values and nothing are added to them.
NextWishlists ==
    \/ db.units = {} /\ UnitSave(NoId, ValidUnit)
    \/ \E n \in 1..Len(Usernames) :
          Cardinality(db.users) = n - 1 /\ UserSave(NoId, ModelUser(n, n, PwGood))
    \/ ProductSave(NoId, ValidProduct(1, 0))
    \/ \E id \in 1..MaxProducts : ProductDelete(id)
    \/ \E u \in 1..MaxUsers : WishlistCreate([id |-> NoId, products |-> {}, user |-> u])
    \/ \E wid \in 1..MaxWishlists, k \in {"Product", "Category", "NoneType"},
          id \in 0..MaxProducts :
          /\ k = "NoneType" => id = NoId
          /\ WishlistAddProduct(wid, [id |-> id, kind |-> k])

SpecWishlists == Init /\ [][NextWishlists]_vars

\* C24: Wishlist.add_product adds the product to the wishlist when given a
\* stored Product, and raises ValueError and leaves the products of every
\* wishlist unchanged when given anything that is not a Product; a product
\* held by one wishlist can be added to another, and a user who owns a
\* wishlist can be given another.
C24_AddProduct ==
    [][LET wid == last'.arg.id
           arg == last'.arg.product
       IN  /\ (last'.op = "Wishlist.add_product" /\ arg.kind = "Product"
                  /\ arg.id \in Ids(db.products))
                 => /\ last'.result = "ok"
                    /\ Row(db'.wishlists, wid).products
                          = Row(db.wishlists, wid).products \cup {arg.id}
                    /\ \A w \in db.wishlists : w.id # wid => w \in db'.wishlists
           /\ (last'.op = "Wishlist.add_product" /\ arg.kind # "Product")
                 => /\ last'.result = "ValueError"
                    /\ db' = db
           /\ (last'.op = "Wishlist.create" /\ last'.arg.user \in Ids(db.users)
                  /\ Cardinality(db.wishlists) < MaxWishlists)
                 => /\ last'.result = "ok"
                    /\ Cardinality(db'.wishlists) = Cardinality(db.wishlists) + 1
                    /\ \A w \in db'.wishlists \ db.wishlists :
                          w.user = last'.arg.user /\ w.products = {}]_vars

\* One user owns two wishlists, and the product just added to one of them
\* is held by both.
C24_Witness ==
    /\ last.op = "Wishlist.add_product"
    /\ last.result = "ok"
    /\ last.arg.product.kind = "Product"
    /\ \E w1, w2 \in db.wishlists :
          /\ w1.id # w2.id
          /\ w1.user = w2.user
          /\ last.arg.product.id \in w1.products \cap w2.products

(***************************************************************************)
(* References between stored rows                                          *)
(***************************************************************************)
\* Rows of every entity are created, with references to rows that are
\* stored or that were deleted, and deleted in any order.  At most one unit,
\* user, image, cart, cart item, link and wishlist and two categories are
\* stored at a time.
NextIntegrity ==
    \/ db.units = {} /\ UnitSave(NoId, ValidUnit)
    \/ \E id \in 1..MaxUnits : UnitDelete(id)
    \/ \E p \in 0..MaxCategories :
          Cardinality(db.categories) < 2 /\ CategorySave(NoId, ValidCategory(p))
    \/ \E id \in 1..MaxCategories : CategoryDelete(id)
    \/ db.users = {} /\ UserSave(NoId, ModelUser(1, 1, PwGood))
    \/ \E id \in 1..MaxUsers : UserDelete(id)
    \/ \E u \in 1..MaxUnits : ProductSave(NoId, ValidProduct(u, 0))
    \/ \E id \in 1..MaxProducts : ProductDelete(id)
    \/ \E p \in 1..MaxProducts :
          db.images = {} /\ ImageCreate([id |-> NoId, image_file |-> 1, product |-> p])
    \/ \E id \in 1..MaxImages : ImageDelete(id)
    \/ \E u \in 1..MaxUsers : db.carts = {} /\ CartCreate([id |-> NoId, user |-> u])
    \/ \E id \in 1..MaxCarts : CartDelete(id)
    \/ \E c \in 1..MaxCarts, p \in 1..MaxProducts :
          db.items = {} /\ CartItemSave(NoId, [id |-> NoId, cart |-> c, product |-> p, quantity |-> 1])
    \/ \E p \in 1..MaxProducts, c \in 1..MaxCategories :
          db.links = {} /\ LinkCreate([id |-> NoId, product |-> p, category |-> c])
    \/ \E u \in 1..MaxUsers :
          db.wishlists = {} /\ WishlistCreate([id |-> NoId, products |-> {}, user |-> u])
    \/ \E wid \in 1..MaxWishlists, p \in 1..MaxProducts :
          WishlistAddProduct(wid, [id |-> p, kind |-> "Product"])
    \/ \E t \in {"links", "items", "wishlists"}, id \in 1..MaxWishlists : RowDelete(t, id)

SpecIntegrity == Init /\ [][NextIntegrity]_vars

\* C22: after any sequence of creations and deletions no stored row refers
\* to a missing row: every ProductCategory, Image and CartItem refers to a
\* stored Product (and Category or Cart), every Product to a stored Unit,
\* every Cart and Wishlist to a stored user, every Wishlist holds stored
\* products only, and every Category parent is null or a stored Category.
C22_References ==
    /\ \A l \in db.links :
          l.product \in Ids(db.products) /\ l.category \in Ids(db.categories)
    /\ \A i \in db.images : i.product \in Ids(db.products)
    /\ \A i \in db.items : i.product \in Ids(db.products) /\ i.cart \in Ids(db.carts)
    /\ \A p \in db.products : p.unit \in Ids(db.units)
    /\ \A c \in db.carts : c.user \in Ids(db.users)
    /\ \A w \in db.wishlists : w.user \in Ids(db.users) /\ w.products \subseteq Ids(db.products)
    /\ \A c \in db.categories : c.parent = NoId \/ c.parent \in Ids(db.categories)

\* A unit's delete took its product with it while a wishlist, a cart and a
\* category stay stored, and the file of the product's image is evidence
\* that the product had an image.
C22_Witness ==
    /\ last.op = "Unit.delete"
    /\ last.arg.seen # {}
    /\ db.products = {}
    /\ files # {}
    /\ db.wishlists # {}
    /\ db.carts # {}
    /\ db.categories # {}

(***************************************************************************)
(* Image rows and their files                                              *)
(***************************************************************************)
\* C23: whenever an Image row is removed (by deleting the Image, by deleting
\* its Product, or by the cascade of deleting the Product's Unit) its file
\* is removed from the storage, so that the removal leaves no stored file
\* without an Image row that did not lack one before.
C23_FileRemovedWithRow ==
    [][\A i \in db.images :
          i.id \notin Ids(db'.images)
             => /\ i.image_file \notin files'
                /\ \A f \in files' \ {j.image_file : j \in db'.images} :
                      f \in files \ {j.image_file : j \in db.images}]_vars

\* An Image was deleted; its row is gone and its file is still stored.
C23_Witness ==
    /\ last.op = "Image.delete"
    /\ last.result = "ok"
    /\ \A i \in last.arg.seen : i.id \notin Ids(db.images) /\ i.image_file \in files
    /\ last.arg.seen # {}

\* What the model does (C23 as the code has it): only Product.delete removes
\* a file, the file of the one image of the product; the delete of an Image
\* and the delete of a Unit remove rows and leave every file in the storage.
C23_FileRemovedByProductDelete ==
    [][/\ files' \subseteq files => last'.op = "Product.delete" \/ files' = files
       /\ last'.op = "Product.delete" /\ last'.result = "ok"
             => files \ files' = {i.image_file : i \in ProductImages(db, last'.arg.id)}
       /\ last'.op \in {"Image.delete", "Unit.delete"} => files' = files]_vars

(***************************************************************************)
(* Lengths of the names of units and categories                            *)
(***************************************************************************)
\* 'a' * n
RECURSIVE Repeat(_, _)
Repeat(c, n) ==
    IF n = 0 THEN ""
    ELSE IF n % 2 = 0 THEN LET half == Repeat(c, n \div 2) IN half \o half
    ELSE c \o Repeat(c, n - 1)

\* Units and categories whose name and symbol are missing, usual, of the
\* greatest length allowed, and one character longer.
LengthInputs ==
    [units      |-> {[id |-> NoId, name |-> n, symbol |-> y] :
                        n \in {"", "Kilogram", Repeat("a", 200), Repeat("a", 201)},
                        y \in {"", "kg", Repeat("a", 9), Repeat("a", 10)}},
     categories |-> {[id |-> NoId, name |-> n, parent |-> NoId] :
                        n \in {"", "Electronics", Repeat("a", 200), Repeat("a", 201)}}]

NextLengths ==
    \/ \E u \in LengthInputs.units : UnitSave(NoId, u)
    \/ \E id \in 1..MaxUnits, u \in LengthInputs.units : UnitSave(id, u)
    \/ \E id \in 1..MaxUnits : UnitDelete(id)
    \/ \E c \in LengthInputs.categories : CategorySave(NoId, c)
    \/ \E id \in 1..MaxCategories, c \in LengthInputs.categories : CategorySave(id, c)
    \/ \E id \in 1..MaxCategories : CategoryDelete(id)

SpecLengths == Init /\ [][NextLengths]_vars

NameFits(n) == n # "" /\ Len(n) <= 200

SymbolFits(y) == y # "" /\ Len(y) <= 9

\* C25: in every reachable state every stored Unit has a non-empty name of
\* at most 200 characters and a non-empty symbol of at most 9 characters,
\* and every stored Category a non-empty name of at most 200 characters; a
\* save that breaks one of these bounds raises ValidationError and writes
\* nothing, and a save within them, a name of exactly 200 characters
\* included, is accepted and writes the row.
C25_Lengths ==
    /\ [](/\ \A u \in db.units : NameFits(u.name) /\ SymbolFits(u.symbol)
          /\ \A c \in db.categories : NameFits(c.name))
    /\ [][/\ last'.op = "Unit.save"
                => IF NameFits(last'.arg.name) /\ SymbolFits(last'.arg.symbol)
                   THEN /\ last'.result = "ok"
                        /\ \E u \in db'.units :
                              u.name = last'.arg.name /\ u.symbol = last'.arg.symbol
                   ELSE last'.result = "ValidationError" /\ db' = db
          /\ last'.op = "Category.save"
                => IF NameFits(last'.arg.name)
                   THEN /\ last'.result = "ok"
                        /\ \E c \in db'.categories : c.name = last'.arg.name
                   ELSE last'.result = "ValidationError" /\ db' = db]_vars

\* A unit whose name has exactly 200 characters and whose symbol has exactly
\* 9 is stored next to a category whose name has exactly 200, and the last
\* save, of a name of 201 characters, was refused.
C25_Witness ==
    /\ \E u \in db.units : Len(u.name) = 200 /\ Len(u.symbol) = 9
    /\ \E c \in db.categories : Len(c.name) = 200
    /\ last.op \in {"Unit.save", "Category.save"}
    /\ Len(last.arg.name) = 201
    /\ last.result = "ValidationError"

(***************************************************************************)
(* Product updates that replace the image, with faults                     *)
(***************************************************************************)
\* A user, a unit and a category are stored; products are created with an
\* upload, and updated with and without categories and an upload, under
\* every fault.
NextReplace ==
    \/ Register(0, RegisterRequest(RegisterFields, 1, 1, PwGood))
    \/ UnitSave(NoId, ValidUnit)
    \/ db.categories = {} /\ CategorySave(NoId, ValidCategory(NoId))
    \/ \E c \in {<<>>, <<"Electronics">>} : ProductCreate(1, ProductRequest(c, 1), "none")
    \/ \E pk \in 1..MaxProducts, c \in {<<>>, <<"Electronics">>}, i \in {0, 1}, f \in Faults :
          ProductUpdate(1, pk, [ProductRequest(c, i) EXCEPT !.name = "Renamed"], f)

SpecReplace == Init /\ [][NextReplace]_vars

\* The update request failed after the file of the product's image was
\* removed: the new upload could not be stored, or its row not inserted.
FailedInReplace(r, d) ==
    /\ r.op = "product.update"
    /\ r.arg.req.image = 1
    /\ r.arg.fault \in {"storage", "image_row"}
    /\ r.result \in {"OSError", "DatabaseError"}
    /\ ProductImages(d, r.arg.pk) # {}

\* C26: a product-update request that fails after it has started replacing
\* the image leaves the product's previous Image row and that image's file
\* both in place, and leaves the product's fields and categories as they
\* were before the request.
C26_FailedUpdate ==
    [][FailedInReplace(last', db)
          => /\ ProductImages(db', last'.arg.pk) = ProductImages(db, last'.arg.pk)
             /\ \A i \in ProductImages(db, last'.arg.pk) :
                   i.image_file \in files => i.image_file \in files'
             /\ db'.products = db.products
             /\ db'.links = db.links]_vars

\* An update with a new name and an upload failed when the upload was
\* stored; the product keeps its name and its Image row, and the file the
\* row names is no longer stored.
C26_Witness ==
    /\ FailedInReplace(last, db)
    /\ last.arg.fault = "storage"
    /\ last.status = 500
    /\ \A p \in db.products : p.name # "Renamed"
    /\ \E i \in ProductImages(db, last.arg.pk) : i.image_file \notin files

\* What the model does (C26 as the code has it): the rows are as before the
\* request and the file of the previous image was removed from the storage;
\* when the insert of the new row failed, the new upload is stored, under
\* a name no file has, which may be the name the removed file had.
C26_FailedUpdateKeepsRows ==
    [][FailedInReplace(last', db)
          => LET rest == files \ {i.image_file : i \in ProductImages(db, last'.arg.pk)}
             IN  /\ db' = db
                 /\ files' = IF last'.arg.fault = "storage" THEN rest
                             ELSE rest \cup {NewFile(rest)}]_vars

(***************************************************************************)
(* Product requests served concurrently                                    *)
(***************************************************************************)
\* Two requests at most are in flight at a time.
\* The database does not give the key of a deleted product to a new one;
\* as the model takes the least free key, no product is created while a
\* request in flight holds the key of a product that was deleted.
NextConcurrent ==
    \/ db.users = {} /\ Register(0, RegisterRequest(RegisterFields, 1, 1, PwGood))
    \/ db.units = {} /\ UnitSave(NoId, ValidUnit)
    \/ \E i \in {0, 1} :
          /\ \A t \in inflight : t.pk \in Ids(db.products)
          /\ ProductCreate(1, ProductRequest(<<>>, i), "none")
    \/ \E n \in 1..2, pk \in 1..MaxProducts, i \in {0, 1} :
          Cardinality(inflight) < 2 /\ UpdateBegin(n, pk, ProductRequest(<<>>, i))
    \/ \E t \in inflight : UpdateSave(t)
    \/ \E t \in inflight : UpdateCommit(t)
    \/ \E n \in 1..2, pk \in 1..MaxProducts :
          Cardinality(inflight) < 2 /\ DestroyBegin(n, pk)
    \/ \E t \in inflight : DestroyCommit(t)
    \/ \E t \in inflight : TxnAbort(t)

SpecConcurrent == Init /\ [][NextConcurrent]_vars

\* C27: under any interleaving of concurrent product create, update and
\* delete requests every stored product has at most one Image row, so the
\* single-image lookups of Product.delete and get_image_url find at most
\* one row.
C27_OneImage ==
    \A p \in db.products : Cardinality(ProductImages(db, p.id)) <= 1

\* An update with an upload that began when the product had no image has
\* committed after replacing the image another update, begun at the same
\* time, had committed meanwhile; the product has one image.
C27_Witness ==
    /\ last.op = "product.update"
    /\ last.status = 200
    /\ last.arg.image = 1
    /\ last.arg.seen = {}
    /\ last.arg.deleted # {}
    /\ Cardinality(ProductImages(db, last.arg.pk)) = 1

(***************************************************************************)
(* The stored password and the requests that write it                      *)
(***************************************************************************)
\* Two users register; they log in, change their password with the right
\* and the wrong old password, and update their profile with and without a
\* password among the fields.
NextCredentials ==
    \/ \E n \in 1..2 : Register(0, RegisterRequest(RegisterFields, n, n, PwGood))
    \/ \E n \in 1..2, pw \in {PwGood, PwOther} :
          Login(0, [given |-> {"username", "password"}, username |-> Usernames[n],
                    password |-> pw])
    \/ \E tok \in 0..MaxKeys, o \in {PwGood, PwOther}, n \in {PwGood, PwOther} :
          ChangePassword(tok, [given |-> {"old_password", "new_password"},
                               old_password |-> o, new_password |-> n])
    \/ \E tok \in 0..MaxKeys, n \in 1..2, pw \in {<<>>, PwGood, PwOther, PwShort} :
          ProfilePut(tok, [given |-> {"email", "first_name", "last_name"}
                                        \cup (IF pw = <<>> THEN {} ELSE {"password"}),
                           username |-> "", email |-> Emails[n], password |-> pw,
                           first_name |-> "Test", last_name |-> "User",
                           phone_number |-> <<>>])

SpecCredentials == Init /\ [][NextCredentials]_vars

\* The stored password of the stored user u differs after the step.
PasswordChanged(u, d) == \E v \in d.users : v.id = u.id /\ v.password # u.password

\* C28: the stored password of a user changes only through a request that
\* supplied that user's current password and had it verified; no request
\* authenticated by the token alone, the profile update included, changes it.
C28_PasswordNeedsOld ==
    [][\A u \in db.users :
          PasswordChanged(u, db')
             => /\ last'.op = "change_password"
                /\ TokenUser(db, last'.auth) = u.id
                /\ "old_password" \in last'.arg.given
                /\ check_password(last'.arg.old_password, u.password)]_vars

\* A profile update that carried a password and no old password was
\* answered 200, and the user's stored password is now the submitted one,
\* which is not the one the user registered with.
C28_Witness ==
    /\ last.op = "profile.put"
    /\ last.status = 200
    /\ "password" \in last.arg.given
    /\ last.arg.password # PwGood
    /\ \E u \in db.users :
          /\ u.id = TokenUser(db, last.auth)
          /\ u.password = make_password(last.arg.password)
          /\ authenticate(db, [given |-> {"username", "password"},
                               username |-> u.username, password |-> PwGood]) = NoId

\* What the model does (C28 as the code has it): the stored password changes
\* through a password change whose old password was verified, or through a
\* profile update of the token's user that carries a password which passes
\* the password validation.
C28_PasswordWriters ==
    [][\A u \in db.users :
          PasswordChanged(u, db')
             => /\ TokenUser(db, last'.auth) = u.id
                /\ \/ /\ last'.op = "change_password"
                      /\ check_password(last'.arg.old_password, u.password)
                   \/ /\ last'.op = "profile.put"
                      /\ "password" \in last'.arg.given
                      /\ validate_password(last'.arg.password) = "ok"]_vars

(***************************************************************************)
(* Product updates and the product's categories                            *)
(***************************************************************************)
\* A user, a unit and two categories are stored; every product is created
\* in the category Electronics, and updated with no category, with the same
\* one or with another one.
NextAssociations ==
    \/ db.users = {} /\ Register(0, RegisterRequest(RegisterFields, 1, 1, PwGood))
    \/ db.units = {} /\ UnitSave(NoId, ValidUnit)
    \/ \E n \in {"Electronics", "Books"} :
          /\ \A c \in db.categories : c.name # n
          /\ CategorySave(NoId, [id |-> NoId, name |-> n, parent |-> NoId])
    \/ \E i \in {0, 1} : ProductCreate(1, ProductRequest(<<"Electronics">>, i), "none")
    \/ \E pk \in 1..MaxProducts, c \in {<<>>, <<"Electronics">>, <<"Books">>},
          n \in {"Test Product", "Renamed"}, i \in {0, 1} :
          ProductUpdate(1, pk, [ProductRequest(c, i) EXCEPT !.name = n], "none")
    \/ \E pk \in 1..MaxProducts : ProductDestroy(1, pk)

SpecAssociations == Init /\ [][NextAssociations]_vars

\* C29: a product-update request that carries no categories leaves the
\* product's set of category associations unchanged; the associations are
\* replaced only when the request supplies categories.
C29_UpdateKeepsCategories ==
    [][(last'.op = "product.update" /\ last'.arg.req.categories = <<>>)
          => ProductCategoryIds(db', last'.arg.pk) = ProductCategoryIds(db, last'.arg.pk)]_vars

\* An update that carried a new name and no categories was answered 200,
\* and the product, created in the category Electronics and never given
\* another, has no category left.
C29_Witness ==
    /\ last.op = "product.update"
    /\ last.status = 200
    /\ last.arg.req.categories = <<>>
    /\ last.arg.pk \in Ids(db.products)
    /\ ProductCategoryIds(db, last.arg.pk) = {}
    /\ \E c \in db.categories : c.name = "Electronics"
    /\ \A c \in db.categories : c.name # "Books"

\* What the model does (C29 as the code has it): an update that is answered
\* 200 leaves the product with exactly the categories the request names,
\* none when it names none; an update that is not answered 200 changes no
\* association.
C29_UpdateSetsCategories ==
    [][last'.op = "product.update"
          => IF last'.status = 200
             THEN ProductCategoryIds(db', last'.arg.pk)
                     = UNION {CategoriesNamed(db, last'.arg.req.categories[i]) :
                                 i \in 1..Len(last'.arg.req.categories)}
             ELSE db'.links = db.links]_vars

(***************************************************************************)
(* Tokens over logins and logouts                                          *)
(***************************************************************************)
NextTokens ==
    \/ \E n \in 1..2 : Register(0, RegisterRequest(RegisterFields, n, n, PwGood))
    \/ \E tok \in 0..MaxKeys, n \in 1..2, pw \in {PwGood, PwOther} :
          Login(tok, [given |-> {"username", "password"}, username |-> Usernames[n],
                      password |-> pw])
    \/ \E tok \in 0..MaxKeys : Logout(tok)

SpecTokens == Init /\ [][NextTokens]_vars

\* C30: in every reachable state each user has at most one token; a token
\* stays stored until its user logs out, and a login of a user who has a
\* token returns that token and makes no other, so that successive logins
\* with no logout in between return the same token; a login of a user who
\* has none (after a logout) returns a new token that authenticates that
\* user.
C30_Tokens ==
    /\ [](\A u \in db.users : Cardinality({t \in db.tokens : t.user = u.id}) <= 1)
    /\ [][/\ \A t \in db.tokens :
                t \notin db'.tokens
                   => last'.op = "logout" /\ last'.status = 200 /\ last'.auth = t.key
          /\ (last'.op = "login" /\ last'.status = 200)
                => LET uid == authenticate(db, last'.arg)
                   IN  /\ uid # NoId
                       /\ TokenUser(db', last'.token) = uid
                       /\ IF HasToken(db, uid)
                          THEN last'.token = UserToken(db, uid) /\ db'.tokens = db.tokens
                          ELSE /\ last'.token \notin {t.key : t \in db.tokens}
                               /\ db'.tokens = db.tokens
                                     \cup {[key |-> last'.token, user |-> uid]}]_vars

\* A user who registered and logged out has logged in again: the login
\* returned a token that is not the first one and that authenticates the
\* user, who has this token only.
C30_Witness ==
    /\ last.op = "login"
    /\ last.status = 200
    /\ Cardinality(db.users) = 1
    /\ last.token > 1
    /\ \E u \in db.users :
          /\ TokenUser(db, last.token) = u.id
          /\ {t \in db.tokens : t.user = u.id} = {[key |-> last.token, user |-> u.id]}

====
